---- MODULE Spec2Model ----
(***************************************************************************)
(* A model of the read-only SQLite file decoder of this repository:        *)
(* the varint codec (internal/db/varint.go), the record decoder and the    *)
(* schema catalog (internal/db/row.go, MetadataLookup), the page reader    *)
(* (internal/db/page.go, internal/db/file.go) and the query facade         *)
(* (internal/engine/query.go).                                             *)
(*                                                                         *)
(* Go's uint64 / int64 values are modelled as their eight bytes, most      *)
(* significant first, so that shifts, masks and conversions behave as they *)
(* do on the machine; a byte is a number in 0..255; a byte slice, a string *)
(* and a byte stream are sequences of bytes.                               *)
(***************************************************************************)
EXTENDS Integers, Sequences, FiniteSets, TLC

VARIABLES
    stream,      \* SpecVarint: the bytes behind the io.ByteReader
    vres,        \* SpecVarint: what ReadVarint returned
    serialType,  \* SpecCodec: the serial type handed to the column codec
    raw,         \* SpecCodec: the payload bytes handed to decodeColumnValue
    cres,        \* SpecCodec: results of columnRawValueLength / decodeColumnValue
    from,        \* SpecQuery: the FROM clause of the parsed SELECT
    qres,        \* SpecQuery: what TableNameFromQuery returned
    file,        \* Spec: the database file's bytes
    page,        \* Spec: the page LoadPage produced
    op,          \* Spec: the operation that ran last, its argument, the page number loaded
    res          \* Spec: what that operation returned

vars == <<stream, vres, serialType, raw, cres, from, qres, file, page, op, res>>

(***************************************************************************)
(* Machine words: a 64-bit word is its eight bytes, most significant first *)
(***************************************************************************)
WordBytes == 8

WordBits == 64

Min(a, b) == IF a < b THEN a ELSE b

Max(a, b) == IF a > b THEN a ELSE b

\* x := v; F(x): a local variable, its value computed once
Bind(v, F(_)) == CHOOSE r \in {F(x) : x \in {v}} : TRUE

\* the word 0
Zero64 == <<0, 0, 0, 0, 0, 0, 0, 0>>

\* byte i of x, 0 outside the word
ByteAt(x, i) == IF i \in 1..WordBytes THEN x[i] ELSE 0

\* uint64(b) for a byte b
FromByte(b) == <<0, 0, 0, 0, 0, 0, 0, b>>

\* x << n on a 64-bit word (bits shifted out are lost), 0 <= n
Shl(x, n) ==
    LET q == n \div 8
        r == n % 8
        f(i) == ((ByteAt(x, i + q) * (2 ^ r)) % 256) + (ByteAt(x, i + q + 1) \div (2 ^ (8 - r)))
    IN  <<f(1), f(2), f(3), f(4), f(5), f(6), f(7), f(8)>>

\* x >> n on an unsigned 64-bit word (zero fill), 0 <= n
Shr(x, n) ==
    LET q == n \div 8
        r == n % 8
        f(i) == (ByteAt(x, i - q) \div (2 ^ r)) + ((ByteAt(x, i - q - 1) * (2 ^ (8 - r))) % 256)
    IN  <<f(1), f(2), f(3), f(4), f(5), f(6), f(7), f(8)>>

\* a | b on bytes
ByteOr(a, b) ==
    LET bit(k) == IF (a \div (2 ^ k)) % 2 = 1 \/ (b \div (2 ^ k)) % 2 = 1 THEN 2 ^ k ELSE 0
    IN  bit(0) + bit(1) + bit(2) + bit(3) + bit(4) + bit(5) + bit(6) + bit(7)

\* x | y
Or64(x, y) ==
    <<ByteOr(x[1], y[1]), ByteOr(x[2], y[2]), ByteOr(x[3], y[3]), ByteOr(x[4], y[4]),
      ByteOr(x[5], y[5]), ByteOr(x[6], y[6]), ByteOr(x[7], y[7]), ByteOr(x[8], y[8])>>

\* b & m on bytes, for the masks the code uses (0x7f and 0x80)
ByteAnd(b, m) ==
    IF m = 127 THEN b % 128
    ELSE IF m = 128 THEN (b \div 128) * 128
    ELSE b

\* the word is below 2^30, so that it is a number of the model
IsSmall(x) == x[1] = 0 /\ x[2] = 0 /\ x[3] = 0 /\ x[4] = 0 /\ x[5] < 64

\* the number a small word stands for
ToNat(x) == ((x[5] * 256 + x[6]) * 256 + x[7]) * 256 + x[8]

\* uint64(n) for a number 0 <= n < 2^30
FromNat(n) ==
    <<0, 0, 0, 0, (n \div 16777216) % 256, (n \div 65536) % 256, (n \div 256) % 256, n % 256>>

\* bit i of the word, bit 1 the most significant and bit 64 the least
BitOf(x, i) == (x[((i - 1) \div 8) + 1] \div (2 ^ (7 - ((i - 1) % 8)))) % 2

(***************************************************************************)
(* internal/db/varint.go                                                   *)
(***************************************************************************)

\* bufio.Reader.ReadByte: the next byte, or (0, io.EOF) at the end of input
ReadByte(s) ==
    IF Len(s) = 0
    THEN [b |-> 0, err |-> "EOF", rest |-> s, taken |-> 0]
    ELSE [b |-> Head(s), err |-> "nil", rest |-> Tail(s), taken |-> 1]

VarintMaxBytes == 9

\* one pass of the loop body of ReadVarint, then the rest of the loop;
\* i counts the iterations already made, taken the bytes really consumed
RECURSIVE VarintLoop(_, _, _, _, _, _)
VarintLoop(s, i, result, read, err, taken) ==
    IF i = VarintMaxBytes
    THEN [value |-> result, read |-> read, err |-> err, rest |-> s, taken |-> taken]
    ELSE Bind(ReadByte(s), LAMBDA rb :
         Bind(Or64(Shl(result, 7), FromByte(ByteAnd(rb.b, 127))), LAMBDA acc :
             IF ByteAnd(rb.b, 128) = 0
             THEN [value |-> acc, read |-> read + 1, err |-> rb.err,
                   rest |-> rb.rest, taken |-> taken + rb.taken]
             ELSE VarintLoop(rb.rest, i + 1, acc, read + 1, rb.err, taken + rb.taken)))

\* a variant that gives the ninth byte all eight bits, as the SQLite format does
ReadVarintNinthByteEight(s) ==
    LET r == VarintLoop(s, 0, Zero64, 0, "nil", 0)
    IN  IF r.read = VarintMaxBytes /\ r.err = "nil"
        THEN [r EXCEPT !.value =
                 Or64(Shl(VarintLoop(SubSeq(s, 1, 8), 1, Zero64, 0, "nil", 0).value, 8),
                      FromByte(s[9]))]
        ELSE r

\* a variant that forgets the error of the last ReadByte
ReadVarintDropsError(s) ==
    [VarintLoop(s, 0, Zero64, 0, "nil", 0) EXCEPT !.err = "nil"]

ReadVarint(s) == VarintLoop(s, 0, Zero64, 0, "nil", 0)

(***************************************************************************)
(* internal/db/row.go: the column codec                                    *)
(***************************************************************************)

\* x - y on 64-bit words (wrapping), least significant byte first
RECURSIVE SubLoop(_, _, _, _, _)
SubLoop(x, y, i, borrow, acc) ==
    IF i = 0 THEN acc
    ELSE LET d == x[i] - y[i] - borrow
         IN  SubLoop(x, y, i - 1, IF d < 0 THEN 1 ELSE 0, <<d % 256>> \o acc)

Sub64(x, y) == SubLoop(x, y, WordBytes, 0, <<>>)

\* x >= n for an unsigned word x and a small number n
GeqNat(x, n) == ~IsSmall(x) \/ ToNat(x) >= n

\* x is the small number n
IsNat(x, n) == IsSmall(x) /\ ToNat(x) = n

\* int(x) is negative: the sign bit of the 64-bit int
IsNegative(x) == x[1] >= 128

\* the variant that forgets to halve: one payload byte per serial-type step
columnRawValueLengthNoHalving(st) ==
    IF IsSmall(st) /\ ToNat(st) < 12
    THEN LET n == ToNat(st)
         IN  IF n \in {0, 8, 9} THEN [len |-> Zero64, err |-> "nil"]
             ELSE IF n \in {1, 2, 3, 4} THEN [len |-> FromNat(n), err |-> "nil"]
             ELSE IF n = 5 THEN [len |-> FromNat(6), err |-> "nil"]
             ELSE IF n \in {6, 7} THEN [len |-> FromNat(8), err |-> "nil"]
             ELSE [len |-> Zero64, err |-> "reserved"]
    ELSE IF st[WordBytes] % 2 = 0
         THEN [len |-> Sub64(st, FromNat(12)), err |-> "nil"]
         ELSE [len |-> Sub64(st, FromNat(13)), err |-> "nil"]

columnRawValueLength(st) ==
    IF IsNat(st, 0) \/ IsNat(st, 8) \/ IsNat(st, 9) THEN [len |-> Zero64, err |-> "nil"]
    ELSE IF IsNat(st, 1) THEN [len |-> FromNat(1), err |-> "nil"]
    ELSE IF IsNat(st, 2) THEN [len |-> FromNat(2), err |-> "nil"]
    ELSE IF IsNat(st, 3) THEN [len |-> FromNat(3), err |-> "nil"]
    ELSE IF IsNat(st, 4) THEN [len |-> FromNat(4), err |-> "nil"]
    ELSE IF IsNat(st, 5) THEN [len |-> FromNat(6), err |-> "nil"]
    ELSE IF IsNat(st, 6) \/ IsNat(st, 7) THEN [len |-> FromNat(8), err |-> "nil"]
    ELSE IF IsNat(st, 10) \/ IsNat(st, 11) THEN [len |-> Zero64, err |-> "reserved"]
    ELSE IF GeqNat(st, 12)
         THEN IF st[WordBytes] % 2 = 0            \* serialType%2 == 0
              THEN [len |-> Shr(Sub64(st, FromNat(12)), 1), err |-> "nil"]
              ELSE [len |-> Shr(Sub64(st, FromNat(13)), 1), err |-> "nil"]
         ELSE [len |-> Zero64, err |-> "unsupported"]

\* binary.BigEndian.Uint64 of eight bytes
RECURSIVE BigEndianLoop(_, _)
BigEndianLoop(bytes, value) ==
    IF Len(bytes) = 0 THEN value
    ELSE BigEndianLoop(Tail(bytes), Or64(Shl(value, 8), FromByte(Head(bytes))))

BigEndianUint64(bytes) == BigEndianLoop(bytes, Zero64)

\* the loop of decodeSignedInteger: value = (value << 8) | int64(b)
RECURSIVE SignedLoop(_, _)
SignedLoop(bytes, value) ==
    IF Len(bytes) = 0 THEN value
    ELSE SignedLoop(Tail(bytes), Or64(Shl(value, 8), FromByte(Head(bytes))))

\* int64(uint64(value<<shift) >> shift): the right shift is on a uint64
decodeSignedInteger(bytes) ==
    LET value == SignedLoop(bytes, Zero64)
        shift == (8 - Len(bytes)) * 8
    IN  Shr(Shl(value, shift), shift)

NilValue == [t |-> "nil", v |-> <<>>]

decodeColumnValue(st, bytes) ==
    Bind(columnRawValueLength(st), LAMBDA expected :
        IF expected.err # "nil" THEN [value |-> NilValue, err |-> expected.err]
        ELSE IF ~IsNat(expected.len, Len(bytes))
             THEN [value |-> NilValue, err |-> "length mismatch"]
        ELSE IF IsNat(st, 0) THEN [value |-> NilValue, err |-> "nil"]
        ELSE IF \E n \in 1..6 : IsNat(st, n)
             THEN [value |-> [t |-> "int64", v |-> decodeSignedInteger(bytes)], err |-> "nil"]
        ELSE IF IsNat(st, 7)
             THEN [value |-> [t |-> "float64", v |-> BigEndianUint64(bytes)], err |-> "nil"]
        ELSE IF IsNat(st, 8) THEN [value |-> [t |-> "int64", v |-> Zero64], err |-> "nil"]
        ELSE IF IsNat(st, 9) THEN [value |-> [t |-> "int64", v |-> FromNat(1)], err |-> "nil"]
        ELSE IF GeqNat(st, 12)
             THEN IF st[WordBytes] % 2 = 0
                  \* append([]byte(nil), raw...): the bytes in an array of their own
                  THEN [value |-> [t |-> "bytes", v |-> bytes, mem |-> "own"], err |-> "nil"]
                  ELSE [value |-> [t |-> "string", v |-> bytes], err |-> "nil"]
        ELSE [value |-> NilValue, err |-> "unsupported"])

(***************************************************************************)
(* Errors: the message and the cell index the message carries (NoCell when *)
(* it carries none); wrapping with %w keeps what the wrapped error carries *)
(***************************************************************************)
NoCell == -1

NoError == [msg |-> "nil", cell |-> NoCell]

Error(m) == [msg |-> m, cell |-> NoCell]

CellError(m, c) == [msg |-> m, cell |-> c]

\* fmt.Errorf("cell %d: ...: %w", cellIndex, err)
WrapCell(m, c) == [msg |-> m, cell |-> c]

\* fmt.Errorf("...: %w", err)
Wrap(m, e) == [msg |-> m, cell |-> e.cell]

(***************************************************************************)
(* internal/db/file.go, internal/db/page.go: the page reader               *)
(***************************************************************************)
databaseHeaderBytes == 100

InteriorIndex == 2

InteriorTable == 5

LeafIndex == 10

LeafTable == 13

\* binary.BigEndian.Uint16 of the two bytes at 0-based offset off of data
BigEndianUint16(data, off) == data[off + 1] * 256 + data[off + 2]

NoHeader == [PageSize |-> 0]

NoPage ==
    [PageType |-> 0, PageStart |-> 0, ContentOffset |-> 0, CellCount |-> 0,
     CellAddresses |-> <<>>, Data |-> <<>>]

\* NewDatabaseHeader: the first 100 bytes of the file, PageSize at offset 16
NewDatabaseHeader(f) ==
    IF Len(f.bytes) < databaseHeaderBytes
    THEN [header |-> NoHeader, err |-> Error("read database header")]
    ELSE [header |-> [PageSize |-> BigEndianUint16(f.bytes, 16)], err |-> NoError]

\* a variant that counts pages from 0: page n at n * pageSize
pageBoundsFromZero(header, pageNumber) ==
    IF pageNumber = 0
    THEN [start |-> 0, size |-> 0, contentOffset |-> 0,
          err |-> Error("page number must be greater than 0")]
    ELSE IF pageNumber = 1
    THEN IF header.PageSize <= databaseHeaderBytes
         THEN [start |-> 0, size |-> 0, contentOffset |-> 0,
               err |-> Error("page size too small for header")]
         ELSE [start |-> 0, size |-> header.PageSize,
               contentOffset |-> databaseHeaderBytes, err |-> NoError]
    ELSE [start |-> pageNumber * header.PageSize, size |-> header.PageSize,
          contentOffset |-> 0, err |-> NoError]

pageBounds(header, pageNumber) ==
    IF pageNumber = 0
    THEN [start |-> 0, size |-> 0, contentOffset |-> 0,
          err |-> Error("page number must be greater than 0")]
    ELSE IF pageNumber = 1
    THEN IF header.PageSize <= databaseHeaderBytes
         THEN [start |-> 0, size |-> 0, contentOffset |-> 0,
               err |-> Error("page size too small for header")]
         ELSE [start |-> 0, size |-> header.PageSize,
               contentOffset |-> databaseHeaderBytes, err |-> NoError]
    ELSE [start |-> (pageNumber - 1) * header.PageSize, size |-> header.PageSize,
          contentOffset |-> 0, err |-> NoError]

\* a variant of the loop that stops one cell pointer early
RECURSIVE CellAddressLoopStopsEarly(_, _, _, _, _)
CellAddressLoopStopsEarly(data, offset, i, pointerBytes, acc) ==
    IF i + 2 >= pointerBytes THEN acc
    ELSE CellAddressLoopStopsEarly(data, offset, i + 2, pointerBytes,
                                   Append(acc, BigEndianUint16(data, offset + i)))

\* a variant of the loop that leaves out a cell pointer equal to the one
\* before it
RECURSIVE CellAddressLoopDedups(_, _, _, _, _)
CellAddressLoopDedups(data, offset, i, pointerBytes, acc) ==
    IF i >= pointerBytes THEN acc
    ELSE CellAddressLoopDedups(data, offset, i + 2, pointerBytes,
             IF Len(acc) > 0 /\ acc[Len(acc)] = BigEndianUint16(data, offset + i)
             THEN acc ELSE Append(acc, BigEndianUint16(data, offset + i)))

\* the loop that appends the cell pointers, i the 0-based byte index
RECURSIVE CellAddressLoop(_, _, _, _, _)
CellAddressLoop(data, offset, i, pointerBytes, acc) ==
    IF i >= pointerBytes THEN acc
    ELSE CellAddressLoop(data, offset, i + 2, pointerBytes,
                         Append(acc, BigEndianUint16(data, offset + i)))

\* a slice expression data[lo:hi] is within the bounds of data; the Go
\* runtime panics when it is not
SliceInRange(data, lo, hi) == 0 <= lo /\ lo <= hi /\ hi <= Len(data)

\* a variant that reads a page of any other type as a leaf page
ParsePageAnyType(data, bounds) ==
    LET fail(m) == [page |-> NoPage, err |-> Error(m), bytesRead |-> Len(data)]
    IN  IF Len(data) = 0 THEN fail("no data")
        ELSE IF bounds.contentOffset >= Len(data) THEN fail("content offset beyond data")
        ELSE
        Bind(data[bounds.contentOffset + 1], LAMBDA typeFlag :
        Bind(IF typeFlag \in {InteriorIndex, InteriorTable} THEN 11 ELSE 7, LAMBDA headerLen :
        Bind(bounds.contentOffset + 1, LAMBDA offset :
            IF Len(data) < offset + headerLen THEN fail("header truncated")
            ELSE
            \* header[2:4] is data[offset+2 : offset+4]
            Bind(BigEndianUint16(data, offset + 2), LAMBDA cellCount :
                IF Len(data) < offset + headerLen + cellCount * 2
                THEN fail("cell pointer array truncated")
                ELSE [page |-> [PageType      |-> typeFlag,
                                PageStart     |-> bounds.start,
                                ContentOffset |-> bounds.contentOffset,
                                CellCount     |-> cellCount,
                                CellAddresses |->
                                    CellAddressLoop(data, offset + headerLen, 0,
                                                    cellCount * 2, <<>>),
                                Data          |-> data],
                      err |-> NoError, bytesRead |-> Len(data)]))))

\* a variant that takes the cell count from the two bytes after the type byte
ParsePageCountAfterType(data, bounds) ==
    LET fail(m) == [page |-> NoPage, err |-> Error(m), bytesRead |-> Len(data)]
    IN  IF Len(data) = 0 THEN fail("no data")
        ELSE IF bounds.contentOffset >= Len(data) THEN fail("content offset beyond data")
        ELSE
        Bind(data[bounds.contentOffset + 1], LAMBDA typeFlag :
        Bind(IF typeFlag \in {InteriorIndex, InteriorTable} THEN 11 ELSE 7, LAMBDA headerLen :
        Bind(bounds.contentOffset + 1, LAMBDA offset :
            IF typeFlag \notin {InteriorIndex, InteriorTable, LeafIndex, LeafTable}
            THEN fail("unknown type")
            ELSE IF Len(data) < offset + headerLen THEN fail("header truncated")
            ELSE
            Bind(BigEndianUint16(data, offset), LAMBDA cellCount :
                IF Len(data) < offset + headerLen + cellCount * 2
                THEN fail("cell pointer array truncated")
                ELSE [page |-> [PageType      |-> typeFlag,
                                PageStart     |-> bounds.start,
                                ContentOffset |-> bounds.contentOffset,
                                CellCount     |-> cellCount,
                                CellAddresses |->
                                    CellAddressLoop(data, offset + headerLen, 0,
                                                    cellCount * 2, <<>>),
                                Data          |-> data],
                      err |-> NoError, bytesRead |-> Len(data)]))))

\* a variant without the check of the length of the cell pointer array
ParsePageNoPointerCheck(data, bounds) ==
    LET fail(m) == [page |-> NoPage, err |-> Error(m), bytesRead |-> Len(data)]
        panic   == [page |-> NoPage, err |-> Error("panic: index out of range"),
                    bytesRead |-> Len(data)]
    IN  IF Len(data) = 0 THEN fail("no data")
        ELSE IF bounds.contentOffset >= Len(data) THEN fail("content offset beyond data")
        \* page.Data[offset]
        ELSE IF ~SliceInRange(data, bounds.contentOffset, bounds.contentOffset + 1) THEN panic
        ELSE
        Bind(data[bounds.contentOffset + 1], LAMBDA typeFlag :
        Bind(IF typeFlag \in {InteriorIndex, InteriorTable} THEN 11 ELSE 7, LAMBDA headerLen :
        Bind(bounds.contentOffset + 1, LAMBDA offset :
            IF typeFlag \notin {InteriorIndex, InteriorTable, LeafIndex, LeafTable}
            THEN fail("unknown type")
            ELSE IF Len(data) < offset + headerLen THEN fail("header truncated")
            \* page.Data[offset : offset+headerLen]
            ELSE IF ~SliceInRange(data, offset, offset + headerLen) THEN panic
            ELSE
            \* header[2:4] is data[offset+2 : offset+4]
            Bind(BigEndianUint16(data, offset + 2), LAMBDA cellCount :
                \* page.Data[offset+i : offset+i+2] for i = 0, 2, ..
                IF \E k \in 0..(cellCount - 1) :
                            ~SliceInRange(data, offset + headerLen + 2 * k,
                                          offset + headerLen + 2 * k + 2)
                THEN panic
                ELSE [page |-> [PageType      |-> typeFlag,
                                PageStart     |-> bounds.start,
                                ContentOffset |-> bounds.contentOffset,
                                CellCount     |-> cellCount,
                                CellAddresses |->
                                    CellAddressLoop(data, offset + headerLen, 0,
                                                    cellCount * 2, <<>>),
                                Data          |-> data],
                      err |-> NoError, bytesRead |-> Len(data)]))))

\* the part of NewPage after the page bytes have been read in full; each
\* index and slice expression of the code panics when it is out of range
ParsePage(data, bounds) ==
    LET fail(m) == [page |-> NoPage, err |-> Error(m), bytesRead |-> Len(data)]
        panic   == [page |-> NoPage, err |-> Error("panic: index out of range"),
                    bytesRead |-> Len(data)]
    IN  IF Len(data) = 0 THEN fail("no data")
        ELSE IF bounds.contentOffset >= Len(data) THEN fail("content offset beyond data")
        \* page.Data[offset]
        ELSE IF ~SliceInRange(data, bounds.contentOffset, bounds.contentOffset + 1) THEN panic
        ELSE
        Bind(data[bounds.contentOffset + 1], LAMBDA typeFlag :
        Bind(IF typeFlag \in {InteriorIndex, InteriorTable} THEN 11 ELSE 7, LAMBDA headerLen :
        Bind(bounds.contentOffset + 1, LAMBDA offset :
            IF typeFlag \notin {InteriorIndex, InteriorTable, LeafIndex, LeafTable}
            THEN fail("unknown type")
            ELSE IF Len(data) < offset + headerLen THEN fail("header truncated")
            \* page.Data[offset : offset+headerLen]
            ELSE IF ~SliceInRange(data, offset, offset + headerLen) THEN panic
            ELSE
            \* header[2:4] is data[offset+2 : offset+4]
            Bind(BigEndianUint16(data, offset + 2), LAMBDA cellCount :
                IF Len(data) < offset + headerLen + cellCount * 2
                THEN fail("cell pointer array truncated")
                \* page.Data[offset+i : offset+i+2] for i = 0, 2, ..
                ELSE IF \E k \in 0..(cellCount - 1) :
                            ~SliceInRange(data, offset + headerLen + 2 * k,
                                          offset + headerLen + 2 * k + 2)
                THEN panic
                ELSE [page |-> [PageType      |-> typeFlag,
                                PageStart     |-> bounds.start,
                                ContentOffset |-> bounds.contentOffset,
                                CellCount     |-> cellCount,
                                CellAddresses |->
                                    CellAddressLoop(data, offset + headerLen, 0,
                                                    cellCount * 2, <<>>),
                                Data          |-> data],
                      err |-> NoError, bytesRead |-> Len(data)]))))

\* a variant that keeps a short read: the bytes read, zero-filled to the size
NewPageKeepsShortRead(f, header, pageNumber) ==
    Bind(pageBounds(header, pageNumber), LAMBDA bounds :
        IF bounds.err # NoError THEN [page |-> NoPage, err |-> bounds.err, bytesRead |-> 0]
        ELSE
        Bind(IF bounds.start >= Len(f.bytes) THEN 0
             ELSE Min(bounds.size, Len(f.bytes) - bounds.start), LAMBDA avail :
            ParsePage(SubSeq(f.bytes, bounds.start + 1, bounds.start + avail)
                          \o [k \in 1..(bounds.size - avail) |-> 0], bounds)))

NewPage(f, header, pageNumber) ==
    Bind(pageBounds(header, pageNumber), LAMBDA bounds :
        IF bounds.err # NoError THEN [page |-> NoPage, err |-> bounds.err, bytesRead |-> 0]
        ELSE
        \* io.ReadFull on the section [start, start+size) of the file
        Bind(IF bounds.start >= Len(f.bytes) THEN 0
             ELSE Min(bounds.size, Len(f.bytes) - bounds.start), LAMBDA avail :
            IF avail < bounds.size
            THEN [page |-> NoPage, err |-> Error("read bytes"), bytesRead |-> avail]
            ELSE ParsePage(SubSeq(f.bytes, bounds.start + 1, bounds.start + avail), bounds)))

\* a variant that opens the file before it looks at the page number
LoadPageOpensFirst(f, pageNum) ==
    IF ~f.exists
    THEN [header |-> NoHeader, page |-> NoPage, err |-> Error("open database"),
          opened |-> 0, closed |-> 0, peak |-> 0]
    ELSE IF pageNum = 0
    THEN [header |-> NoHeader, page |-> NoPage, err |-> Error("page numbers start at 1"),
          opened |-> 1, closed |-> 1, peak |-> 1]
    ELSE
    Bind(NewDatabaseHeader(f), LAMBDA h :
        IF h.err # NoError
        THEN [header |-> NoHeader, page |-> NoPage,
              err |-> Wrap("read database header", h.err), opened |-> 1, closed |-> 1, peak |-> 1]
        ELSE Bind(NewPage(f, h.header, pageNum), LAMBDA pg :
                 IF pg.err # NoError
                 THEN [header |-> NoHeader, page |-> NoPage,
                       err |-> Wrap("read schema page", pg.err), opened |-> 1, closed |-> 1, peak |-> 1]
                 ELSE [header |-> h.header, page |-> pg.page, err |-> NoError,
                       opened |-> 1, closed |-> 1, peak |-> 1]))

\* a variant that closes the file only when it returns a page
LoadPageLeaksOnError(f, pageNum) ==
    IF pageNum = 0
    THEN [header |-> NoHeader, page |-> NoPage, err |-> Error("page numbers start at 1"),
          opened |-> 0, closed |-> 0, peak |-> 0]
    ELSE IF ~f.exists
    THEN [header |-> NoHeader, page |-> NoPage, err |-> Error("open database"),
          opened |-> 0, closed |-> 0, peak |-> 0]
    ELSE
    Bind(NewDatabaseHeader(f), LAMBDA h :
        IF h.err # NoError
        THEN [header |-> NoHeader, page |-> NoPage,
              err |-> Wrap("read database header", h.err), opened |-> 1, closed |-> 0, peak |-> 1]
        ELSE Bind(NewPage(f, h.header, pageNum), LAMBDA pg :
                 IF pg.err # NoError
                 THEN [header |-> NoHeader, page |-> NoPage,
                       err |-> Wrap("read schema page", pg.err), opened |-> 1, closed |-> 0, peak |-> 1]
                 ELSE [header |-> h.header, page |-> pg.page, err |-> NoError,
                       opened |-> 1, closed |-> 1, peak |-> 1]))

\* LoadPage: opened and closed count the handles os.Open gave and the
\* deferred file.Close() released, peak the most handles open at a time
LoadPage(f, pageNum) ==
    IF pageNum = 0
    THEN [header |-> NoHeader, page |-> NoPage, err |-> Error("page numbers start at 1"),
          opened |-> 0, closed |-> 0, peak |-> 0]
    ELSE IF ~f.exists
    THEN [header |-> NoHeader, page |-> NoPage, err |-> Error("open database"),
          opened |-> 0, closed |-> 0, peak |-> 0]
    ELSE
    Bind(NewDatabaseHeader(f), LAMBDA h :
        IF h.err # NoError
        THEN [header |-> NoHeader, page |-> NoPage,
              err |-> Wrap("read database header", h.err), opened |-> 1, closed |-> 1, peak |-> 1]
        ELSE Bind(NewPage(f, h.header, pageNum), LAMBDA pg :
                 IF pg.err # NoError
                 THEN [header |-> NoHeader, page |-> NoPage,
                       err |-> Wrap("read schema page", pg.err), opened |-> 1, closed |-> 1, peak |-> 1]
                 ELSE [header |-> h.header, page |-> pg.page, err |-> NoError,
                       opened |-> 1, closed |-> 1, peak |-> 1]))

(***************************************************************************)
(* internal/db/row.go: the record decoder                                  *)
(***************************************************************************)
CellOffset(pg, cellIndex) ==
    IF cellIndex < 0
    THEN [offset |-> 0, err |-> CellError("cell index out of range", cellIndex)]
    ELSE IF cellIndex >= pg.CellCount
    THEN [offset |-> 0, err |-> CellError("cell index out of range", cellIndex)]
    ELSE IF cellIndex >= Len(pg.CellAddresses)
    THEN [offset |-> 0, err |-> CellError("missing cell address", cellIndex)]
    ELSE [offset |-> pg.CellAddresses[cellIndex + 1], err |-> NoError]

\* a variant that measures the cell pointer from ContentOffset
CellDataFromContent(pg, cellIndex) ==
    Bind(CellOffset(pg, cellIndex), LAMBDA o :
        IF o.err # NoError THEN [data |-> <<>>, err |-> o.err]
        ELSE IF pg.ContentOffset + o.offset >= Len(pg.Data)
        THEN [data |-> <<>>, err |-> Error("cell offset exceeds page data")]
        ELSE [data |-> SubSeq(pg.Data, pg.ContentOffset + o.offset + 1, Len(pg.Data)),
              err |-> NoError])

CellData(pg, cellIndex) ==
    Bind(CellOffset(pg, cellIndex), LAMBDA o :
        IF o.err # NoError THEN [data |-> <<>>, err |-> o.err]
        ELSE IF o.offset >= Len(pg.Data)
        THEN [data |-> <<>>, err |-> Error("cell offset exceeds page data")]
        ELSE [data |-> SubSeq(pg.Data, o.offset + 1, Len(pg.Data)), err |-> NoError])

NoRow == [RecordSize |-> Zero64, RowID |-> Zero64, RecordHeaderSize |-> Zero64, Columns |-> <<>>]

\* the loop over the serial types: ReadVarint on the length-limited reader
\* until it returns io.EOF
RECURSIVE SerialTypeLoop(_, _)
SerialTypeLoop(hdr, columns) ==
    Bind(ReadVarint(hdr), LAMBDA v :
        IF v.err = "EOF" THEN [columns |-> columns, err |-> "nil"]
        ELSE IF v.err # "nil" THEN [columns |-> columns, err |-> v.err]
        ELSE SerialTypeLoop(v.rest,
                            Append(columns, [SerialType |-> v.value, DecodedValue |-> NilValue])))

\* make([]byte, length) fails for a length beyond the largest allocation
\* (2^48 bytes on a 64-bit build)
TooLargeToMake(length) == length[1] > 0 \/ length[2] > 0

\* a variant of io.ReadFull that fills what the stream lacks with zero bytes
ReadFullPads(reader, n) ==
    [bytes |-> SubSeq(reader, 1, Min(n, Len(reader)))
                   \o [k \in 1..(n - Min(n, Len(reader))) |-> 0],
     rest  |-> SubSeq(reader, Min(n, Len(reader)) + 1, Len(reader)),
     err   |-> "nil"]

\* io.ReadFull(reader, buf) into a buffer of n bytes: all n bytes or an error
ReadFull(reader, n) ==
    IF n > Len(reader)
    THEN [bytes |-> <<>>, rest |-> <<>>, err |-> "unexpected EOF"]
    ELSE [bytes |-> SubSeq(reader, 1, n),
          rest  |-> SubSeq(reader, n + 1, Len(reader)),
          err   |-> "nil"]

\* a variant that does not copy: the payload is a slice of the cell data
\* and a blob value is that slice, in the array of page.Data
RECURSIVE ColumnLoopZeroCopy(_, _, _, _, _)
ColumnLoopZeroCopy(columns, i, payload, cellIndex, overAlloc) ==
    IF i >= Len(columns)
    THEN [kind |-> "ok", columns |-> columns, err |-> NoError, overAlloc |-> overAlloc]
    ELSE
    Bind(columnRawValueLength(columns[i + 1].SerialType), LAMBDA length :
        IF length.err # "nil"
        THEN [kind |-> "err", columns |-> <<>>, err |-> WrapCell(length.err, cellIndex),
              overAlloc |-> overAlloc]
        ELSE IF TooLargeToMake(length.len)
        THEN [kind |-> "panic", columns |-> <<>>, err |-> Error("makeslice: len out of range"),
              overAlloc |-> TRUE]
        ELSE IF ~IsSmall(length.len)
        THEN [kind |-> "err", columns |-> <<>>,
              err |-> WrapCell("read column payload", cellIndex), overAlloc |-> TRUE]
        ELSE
        Bind(ReadFull(payload, ToNat(length.len)), LAMBDA rd :
            IF rd.err # "nil"
            THEN [kind |-> "err", columns |-> <<>>,
                  err |-> WrapCell("read column payload", cellIndex), overAlloc |-> TRUE]
            ELSE
            Bind(decodeColumnValue(columns[i + 1].SerialType, rd.bytes), LAMBDA value :
                IF value.err # "nil"
                THEN [kind |-> "err", columns |-> <<>>, err |-> WrapCell(value.err, cellIndex),
                      overAlloc |-> overAlloc]
                ELSE ColumnLoopZeroCopy(
                         [columns EXCEPT ![i + 1].DecodedValue =
                             IF value.value.t = "bytes"
                             THEN [value.value EXCEPT !.mem = "page"] ELSE value.value],
                         i + 1, rd.rest, cellIndex, overAlloc))))

\* the loop over the columns, i the 0-based column index, payload the bytes
\* left in cellReader
RECURSIVE ColumnLoop(_, _, _, _, _)
ColumnLoop(columns, i, payload, cellIndex, overAlloc) ==
    IF i >= Len(columns)
    THEN [kind |-> "ok", columns |-> columns, err |-> NoError, overAlloc |-> overAlloc]
    ELSE
    Bind(columnRawValueLength(columns[i + 1].SerialType), LAMBDA length :
        IF length.err # "nil"
        THEN [kind |-> "err", columns |-> <<>>, err |-> WrapCell(length.err, cellIndex),
              overAlloc |-> overAlloc]
        ELSE IF TooLargeToMake(length.len)
        THEN [kind |-> "panic", columns |-> <<>>, err |-> Error("makeslice: len out of range"),
              overAlloc |-> TRUE]
        ELSE IF ~IsSmall(length.len)
        THEN [kind |-> "err", columns |-> <<>>,
              err |-> WrapCell("read column payload", cellIndex), overAlloc |-> TRUE]
        ELSE
        Bind(ReadFull(payload, ToNat(length.len)), LAMBDA rd :
            IF rd.err # "nil"
            THEN [kind |-> "err", columns |-> <<>>,
                  err |-> WrapCell("read column payload", cellIndex), overAlloc |-> TRUE]
            ELSE
            Bind(decodeColumnValue(columns[i + 1].SerialType, rd.bytes), LAMBDA value :
                IF value.err # "nil"
                THEN [kind |-> "err", columns |-> <<>>, err |-> WrapCell(value.err, cellIndex),
                      overAlloc |-> overAlloc]
                ELSE ColumnLoop([columns EXCEPT ![i + 1].DecodedValue = value.value], i + 1,
                                rd.rest, cellIndex, overAlloc))))

RowFailure(e) == [kind |-> "err", row |-> NoRow, err |-> e, overAlloc |-> FALSE]

\* a variant whose serial-type budget is the header size less the lengths
\* of all three leading varints
ReadColumnsLessAllVarints(recordSize, rowID, headerSize, cellIndex) ==
    IF \/ IsNegative(headerSize.value)
       \/ IsSmall(headerSize.value)
            /\ ToNat(headerSize.value) < recordSize.read + rowID.read + headerSize.read
    THEN RowFailure(WrapCell("negative header size", cellIndex))
    ELSE
    Bind(Len(headerSize.rest), LAMBDA avail :
    Bind(IF IsSmall(headerSize.value)
         THEN Min(ToNat(headerSize.value) - (recordSize.read + rowID.read + headerSize.read),
                  avail)
         ELSE avail, LAMBDA limit :
    Bind(SerialTypeLoop(SubSeq(headerSize.rest, 1, limit), <<>>), LAMBDA serials :
        IF serials.err # "nil" THEN RowFailure(WrapCell("read serial type", cellIndex))
        ELSE
        Bind(ColumnLoop(serials.columns, 0, SubSeq(headerSize.rest, limit + 1, avail),
                        cellIndex, FALSE), LAMBDA cols :
            IF cols.kind # "ok"
            THEN [kind |-> cols.kind, row |-> NoRow, err |-> cols.err,
                  overAlloc |-> cols.overAlloc]
            ELSE [kind |-> "ok",
                  row  |-> [RecordSize       |-> recordSize.value,
                            RowID            |-> rowID.value,
                            RecordHeaderSize |-> headerSize.value,
                            Columns          |-> cols.columns],
                  err |-> NoError, overAlloc |-> cols.overAlloc]))))

\* a variant without the check of the serial-type budget: a negative budget
\* limits the reader to no byte
ReadColumnsUnchecked(recordSize, rowID, headerSize, cellIndex) ==
    Bind(Len(headerSize.rest), LAMBDA avail :
    Bind(IF IsNegative(headerSize.value) THEN 0
         ELSE IF IsSmall(headerSize.value)
         THEN Max(0, Min(ToNat(headerSize.value) - headerSize.read, avail))
         ELSE avail, LAMBDA limit :
    Bind(SerialTypeLoop(SubSeq(headerSize.rest, 1, limit), <<>>), LAMBDA serials :
        IF serials.err # "nil" THEN RowFailure(WrapCell("read serial type", cellIndex))
        ELSE
        Bind(ColumnLoop(serials.columns, 0, SubSeq(headerSize.rest, limit + 1, avail),
                        cellIndex, FALSE), LAMBDA cols :
            IF cols.kind # "ok"
            THEN [kind |-> cols.kind, row |-> NoRow, err |-> cols.err,
                  overAlloc |-> cols.overAlloc]
            ELSE [kind |-> "ok",
                  row  |-> [RecordSize       |-> recordSize.value,
                            RowID            |-> rowID.value,
                            RecordHeaderSize |-> headerSize.value,
                            Columns          |-> cols.columns],
                  err |-> NoError, overAlloc |-> cols.overAlloc]))))

\* a variant whose serial-type reader buffers the cell reader without a
\* limit: the bytes after the header are in its buffer and lost to the
\* cell reader
ReadColumnsBuffersAhead(recordSize, rowID, headerSize, cellIndex) ==
    IF \/ IsNegative(headerSize.value)
       \/ IsSmall(headerSize.value) /\ ToNat(headerSize.value) < headerSize.read
    THEN RowFailure(WrapCell("negative header size", cellIndex))
    ELSE
    Bind(Len(headerSize.rest), LAMBDA avail :
    Bind(IF IsSmall(headerSize.value)
         THEN Min(ToNat(headerSize.value) - headerSize.read, avail)
         ELSE avail, LAMBDA limit :
    Bind(SerialTypeLoop(SubSeq(headerSize.rest, 1, limit), <<>>), LAMBDA serials :
        IF serials.err # "nil" THEN RowFailure(WrapCell("read serial type", cellIndex))
        ELSE
        Bind(ColumnLoop(serials.columns, 0, <<>>, cellIndex, FALSE), LAMBDA cols :
            IF cols.kind # "ok"
            THEN [kind |-> cols.kind, row |-> NoRow, err |-> cols.err,
                  overAlloc |-> cols.overAlloc]
            ELSE [kind |-> "ok",
                  row  |-> [RecordSize       |-> recordSize.value,
                            RowID            |-> rowID.value,
                            RecordHeaderSize |-> headerSize.value,
                            Columns          |-> cols.columns],
                  err |-> NoError, overAlloc |-> cols.overAlloc]))))

\* the part of ReadRow after the three leading varints: the serial types
\* from the length-limited reader, then the payloads from the cell reader
ReadColumns(recordSize, rowID, headerSize, cellIndex) ==
    \* remainingHeaderBytes := int64(RecordHeaderSize) - int64(headerBytes)
    IF \/ IsNegative(headerSize.value)
       \/ IsSmall(headerSize.value) /\ ToNat(headerSize.value) < headerSize.read
    THEN RowFailure(WrapCell("negative header size", cellIndex))
    ELSE
    Bind(Len(headerSize.rest), LAMBDA avail :
    Bind(IF IsSmall(headerSize.value)
         THEN Min(ToNat(headerSize.value) - headerSize.read, avail)
         ELSE avail, LAMBDA limit :
    Bind(SerialTypeLoop(SubSeq(headerSize.rest, 1, limit), <<>>), LAMBDA serials :
        IF serials.err # "nil" THEN RowFailure(WrapCell("read serial type", cellIndex))
        ELSE
        Bind(ColumnLoop(serials.columns, 0, SubSeq(headerSize.rest, limit + 1, avail),
                        cellIndex, FALSE), LAMBDA cols :
            IF cols.kind # "ok"
            THEN [kind |-> cols.kind, row |-> NoRow, err |-> cols.err,
                  overAlloc |-> cols.overAlloc]
            ELSE [kind |-> "ok",
                  row  |-> [RecordSize       |-> recordSize.value,
                            RowID            |-> rowID.value,
                            RecordHeaderSize |-> headerSize.value,
                            Columns          |-> cols.columns],
                  err |-> NoError, overAlloc |-> cols.overAlloc]))))

ReadRow(pg, cellIndex) ==
    Bind(CellData(pg, cellIndex), LAMBDA cell :
        IF cell.err # NoError THEN RowFailure(cell.err)
        ELSE
        Bind(ReadVarint(cell.data), LAMBDA recordSize :
            IF recordSize.err # "nil"
            THEN RowFailure(WrapCell("read record size", cellIndex))
            ELSE
            Bind(ReadVarint(recordSize.rest), LAMBDA rowID :
                IF rowID.err # "nil" THEN RowFailure(WrapCell("read row ID", cellIndex))
                ELSE
                Bind(ReadVarint(rowID.rest), LAMBDA headerSize :
                    IF headerSize.err # "nil"
                    THEN RowFailure(WrapCell("read header size", cellIndex))
                    ELSE ReadColumns(recordSize, rowID, headerSize, cellIndex)))))

\* the loop of ReadAllRows, i the next cell index; calls counts the calls
\* of ReadRow made
RECURSIVE ReadAllRowsLoop(_, _, _)
ReadAllRowsLoop(pg, i, rows) ==
    IF i >= pg.CellCount
    THEN [kind |-> "ok", rows |-> rows, err |-> NoError, calls |-> i]
    ELSE Bind(ReadRow(pg, i), LAMBDA r :
             IF r.kind # "ok"
             THEN [kind |-> r.kind, rows |-> <<>>, err |-> r.err, calls |-> i + 1]
             ELSE ReadAllRowsLoop(pg, i + 1, Append(rows, r.row)))

\* a variant that keeps going after a row fails and returns the rows it has
ReadAllRowsSkipsBadRows(pg) ==
    LET ok == {i \in 0..(pg.CellCount - 1) : ReadRow(pg, i).kind = "ok"}
        RECURSIVE collect(_, _)
        collect(i, rows) ==
            IF i >= pg.CellCount THEN rows
            ELSE collect(i + 1, IF i \in ok THEN Append(rows, ReadRow(pg, i).row) ELSE rows)
    IN  [kind |-> "ok", rows |-> collect(0, <<>>), err |-> NoError, calls |-> pg.CellCount]

ReadAllRows(pg) == ReadAllRowsLoop(pg, 0, <<>>)

(***************************************************************************)
(* internal/db/row.go, MetadataLookup: the schema catalog                  *)
(***************************************************************************)
SqliteSchemaCol(name) ==
    CASE name = "type"     -> 0
      [] name = "name"     -> 1
      [] name = "tbl_name" -> 2
      [] name = "rootpage" -> 3
      [] name = "sql"      -> 4

\* value.(T): the assertion holds when the dynamic type of the value is T
TypeAssert(value, T) == value.t = T

\* uint32(x) for an int64 x: its low four bytes
Uint32(x) == <<x[5], x[6], x[7], x[8]>>

\* the loop of ExtractTableNames over the decoded rows, k the 1-based row
RECURSIVE TableNamesLoop(_, _, _, _, _)
TableNamesLoop(rows, k, idx, T, names) ==
    IF k > Len(rows) THEN [kind |-> "ok", names |-> names, err |-> NoError]
    ELSE IF idx >= Len(rows[k].Columns)
    THEN [kind |-> "err", names |-> <<>>, err |-> Error("column missing in schema row")]
    ELSE IF ~TypeAssert(rows[k].Columns[idx + 1].DecodedValue, T)
    THEN [kind |-> "err", names |-> <<>>, err |-> Error("is not text")]
    ELSE TableNamesLoop(rows, k + 1, idx, T,
                        Append(names, rows[k].Columns[idx + 1].DecodedValue.v))

\* a variant that leaves out the rows that have no tbl_name text
ExtractTableNamesSkipsRows(pg) ==
    LET all == ReadAllRows(pg)
        good(row) == Len(row.Columns) > 2 /\ row.Columns[3].DecodedValue.t = "string"
        RECURSIVE pick(_, _)
        pick(k, names) ==
            IF k > Len(all.rows) THEN names
            ELSE pick(k + 1, IF good(all.rows[k])
                             THEN Append(names, all.rows[k].Columns[3].DecodedValue.v)
                             ELSE names)
    IN  IF all.kind # "ok"
        THEN [kind |-> all.kind, names |-> <<>>, err |-> Wrap("read schema rows", all.err)]
        ELSE [kind |-> "ok", names |-> pick(1, <<>>), err |-> NoError]

ExtractTableNames(pg) ==
    Bind(ReadAllRows(pg), LAMBDA all :
        IF all.kind # "ok"
        THEN [kind |-> all.kind, names |-> <<>>, err |-> Wrap("read schema rows", all.err)]
        ELSE TableNamesLoop(all.rows, 1, SqliteSchemaCol("tbl_name"), "string", <<>>))

ExtractTableMetadata(T, pg, col) ==
    Bind(ReadAllRows(pg), LAMBDA all :
        IF all.kind # "ok"
        THEN [kind |-> all.kind, names |-> <<>>, err |-> Wrap("read schema rows", all.err)]
        ELSE TableNamesLoop(all.rows, 1, SqliteSchemaCol(col), T, <<>>))

\* the loop of RootPageLookup / MetadataLookup over the decoded rows; want
\* is the type asserted on the column asked for and narrow the conversion
\* applied to the asserted value (uint32(rootPage) in RootPageLookup)
RECURSIVE LookupLoop(_, _, _, _, _, _)
LookupLoop(rows, k, name, colIdx, want, narrow) ==
    IF k > Len(rows)
    THEN [kind |-> "err", value |-> <<>>, err |-> Error("table not found in schema")]
    ELSE
    LET cols == rows[k].Columns
        tblNameIdx == SqliteSchemaCol("tbl_name")
    IN  IF tblNameIdx >= Len(cols)
        THEN [kind |-> "err", value |-> <<>>, err |-> Error("tbl_name column missing in schema row")]
        ELSE IF ~TypeAssert(cols[tblNameIdx + 1].DecodedValue, "string")
        THEN [kind |-> "err", value |-> <<>>, err |-> Error("tbl_name is not text")]
        ELSE IF cols[tblNameIdx + 1].DecodedValue.v = name
        THEN \* row.Columns[idx] without a length check: index out of range
             IF colIdx >= Len(cols)
             THEN [kind |-> "panic", value |-> <<>>, err |-> Error("index out of range")]
             ELSE IF ~TypeAssert(cols[colIdx + 1].DecodedValue, want)
             THEN [kind |-> "err", value |-> <<>>, err |-> Error("column has another type")]
             ELSE [kind |-> "ok",
                   value |-> IF narrow THEN Uint32(cols[colIdx + 1].DecodedValue.v)
                             ELSE cols[colIdx + 1].DecodedValue.v,
                   err |-> NoError]
        ELSE LookupLoop(rows, k + 1, name, colIdx, want, narrow)

RootPageLookup(name, pg) ==
    Bind(ReadAllRows(pg), LAMBDA all :
        IF all.kind # "ok"
        THEN [kind |-> all.kind, value |-> <<>>, err |-> Wrap("read schema rows", all.err)]
        ELSE LookupLoop(all.rows, 1, name, SqliteSchemaCol("rootpage"), "int64", TRUE))

\* MetadataLookup[T]: the value of column col must have the dynamic type T
MetadataLookup(T, pg, name, col) ==
    Bind(ReadAllRows(pg), LAMBDA all :
        IF all.kind # "ok"
        THEN [kind |-> all.kind, value |-> <<>>, err |-> Wrap("read schema rows", all.err)]
        ELSE LookupLoop(all.rows, 1, name, SqliteSchemaCol(col), T, FALSE))

(***************************************************************************)
(* internal/engine/query.go: the query facade                              *)
(***************************************************************************)

\* a uint32 as a page number of the model
Uint32ToNat(v) == ((v[1] * 256 + v[2]) * 256 + v[3]) * 256 + v[4]

RowCount(f, name) ==
    Bind(LoadPage(f, 1), LAMBDA schema :
        IF schema.err # NoError
        THEN [kind |-> "err", count |-> 0, err |-> schema.err,
              opened |-> schema.opened, closed |-> schema.closed, peak |-> schema.peak]
        ELSE
        Bind(MetadataLookup("uint32", schema.page, name, "rootpage"), LAMBDA root :
            IF root.kind # "ok"
            THEN [kind |-> root.kind, count |-> 0, err |-> root.err,
                  opened |-> schema.opened, closed |-> schema.closed, peak |-> schema.peak]
            ELSE
            Bind(LoadPage(f, Uint32ToNat(root.value)), LAMBDA rootPage :
                IF rootPage.err # NoError
                THEN [kind |-> "err", count |-> 0, err |-> rootPage.err,
                      opened |-> schema.opened + rootPage.opened,
                      closed |-> schema.closed + rootPage.closed,
                      peak   |-> Max(schema.peak,
                                     schema.opened - schema.closed + rootPage.peak)]
                ELSE [kind |-> "ok", count |-> rootPage.page.CellCount, err |-> NoError,
                      opened |-> schema.opened + rootPage.opened,
                      closed |-> schema.closed + rootPage.closed,
                      peak   |-> Max(schema.peak,
                                     schema.opened - schema.closed + rootPage.peak)])))

\* the variant that returns the last plain table reference of the FROM clause
RECURSIVE TableNameFromQueryLast(_)
TableNameFromQueryLast(items) ==
    IF Len(items) = 0 THEN [name |-> "", err |-> "select query missing table"]
    ELSE LET k == Len(items)
         IN  IF items[k].node = "AliasedTableExpr" /\ items[k].expr = "TableName"
             THEN [name |-> items[k].name, err |-> "nil"]
             ELSE TableNameFromQueryLast(SubSeq(items, 1, k - 1))

\* the loop over s.From: the first AliasedTableExpr whose Expr is a TableName
RECURSIVE TableNameFromQuery(_)
TableNameFromQuery(items) ==
    IF Len(items) = 0 THEN [name |-> "", err |-> "select query missing table"]
    ELSE IF Head(items).node # "AliasedTableExpr" THEN TableNameFromQuery(Tail(items))
    ELSE IF Head(items).expr # "TableName" THEN TableNameFromQuery(Tail(items))
    ELSE [name |-> Head(items).name, err |-> "nil"]

(***************************************************************************)
(* SpecVarint: ReadVarint applied to every byte stream of bounded length   *)
(***************************************************************************)
MaxStreamLen == 9

\* terminal bytes (top bit clear) and continuation bytes (top bit set)
VarintBytes == {5, 128, 255}

RECURSIVE SeqsUpTo(_, _)
SeqsUpTo(S, n) ==
    IF n = 0 THEN {<<>>}
    ELSE LET shorter == SeqsUpTo(S, n - 1)
         IN  shorter \cup {Append(q, x) : q \in {p \in shorter : Len(p) = n - 1}, x \in S}

NoVarint == [value |-> Zero64, read |-> 0, err |-> "none", rest |-> <<>>, taken |-> 0]

Unused == <<>>

InitVarint ==
    /\ stream \in SeqsUpTo(VarintBytes, MaxStreamLen)
    /\ vres = NoVarint
    /\ serialType = Unused /\ raw = Unused /\ cres = Unused
    /\ from = Unused /\ qres = Unused
    /\ file = Unused /\ page = Unused
    /\ op = Unused /\ res = Unused

DoReadVarint ==
    /\ vres.err = "none"
    /\ vres' = ReadVarint(stream)
    /\ UNCHANGED <<stream, serialType, raw, cres, from, qres, file, page, op, res>>

NextVarint == DoReadVarint

SpecVarint == InitVarint /\ [][NextVarint]_vars

(***************************************************************************)
(* Claims about ReadVarint (checked under SpecVarint)                      *)
(***************************************************************************)
Applied == vres.err # "none"

\* the stream holds a whole varint: a byte with the top bit clear among its
\* first nine bytes, or nine bytes
EnoughBytes(s) ==
    \/ Len(s) >= VarintMaxBytes
    \/ \E i \in 1..Len(s) : s[i] < 128

\* the number of bytes of the varint at the head of s
ExpectedVarintLen(s) ==
    IF \E i \in 1..Min(Len(s), VarintMaxBytes) : s[i] < 128
    THEN CHOOSE i \in 1..Min(Len(s), VarintMaxBytes) :
             s[i] < 128 /\ \A j \in 1..(i - 1) : s[j] >= 128
    ELSE VarintMaxBytes

\* bit i (1 the most significant, 64 the least) of the low seven bits of
\* the first n bytes of s written one after another in the low 7n bits
SevenBitGroups(s, n, i) ==
    IF i <= WordBits - 7 * n THEN 0
    ELSE LET j == i - (WordBits - 7 * n) - 1
         IN  (s[(j \div 7) + 1] \div (2 ^ (6 - (j % 7)))) % 2

\* C9: on a stream that holds a whole varint, ReadVarint reads up to the
\* first byte with a clear top bit or nine bytes, returns the 7-bit groups
\* of the bytes read concatenated most significant first, the number of
\* bytes read and no error; a single byte v < 0x80 gives (v, 1).
C9_VarintValue ==
    (Applied /\ EnoughBytes(stream)) =>
        LET n == ExpectedVarintLen(stream)
        IN  /\ vres.err = "nil"
            /\ vres.read = n
            /\ n \in 1..VarintMaxBytes
            /\ vres.rest = SubSeq(stream, n + 1, Len(stream))
            /\ \A i \in 1..WordBits : BitOf(vres.value, i) = SevenBitGroups(stream, n, i)
            /\ (stream[1] < 128 => (IsSmall(vres.value) /\ ToNat(vres.value) = stream[1]
                                    /\ vres.read = 1))

\* nine bytes read, every one with the top bit set, the ninth 0xff
C9_Witness ==
    /\ Applied
    /\ Len(stream) = VarintMaxBytes
    /\ \A i \in 1..VarintMaxBytes : stream[i] >= 128
    /\ stream[VarintMaxBytes] = 255
    /\ vres.read = VarintMaxBytes
    /\ vres.err = "nil"

\* the stream ends after fewer than nine bytes, all with the top bit set
Truncated(s) == Len(s) < VarintMaxBytes /\ \A i \in 1..Len(s) : s[i] >= 128

\* C10: ReadVarint returns a non-nil error when the source runs out before
\* the varint is complete (after k < 9 continuation bytes, k = 0 included).
C10_TruncatedIsError == (Applied /\ Truncated(stream)) => vres.err = "EOF"

C10_Witness ==
    /\ Applied
    /\ Len(stream) = 2
    /\ Truncated(stream)
    /\ vres.err = "EOF"

\* C30: the byte count ReadVarint returns is the number of bytes it has
\* taken from the source, in every outcome: also when it returns an error
\* because the source was empty or ran out inside the varint.
C30_CountIsBytesTaken ==
    Applied => vres.read = Len(stream) - Len(vres.rest)

(***************************************************************************)
(* SpecCodec: columnRawValueLength and decodeColumnValue applied to serial *)
(* types and payloads drawn from bounded sets                              *)
(***************************************************************************)
MaxSerialType == 24

MaxRawLen == 8

PayloadBytes == {1, 255}

Ones64 == <<255, 255, 255, 255, 255, 255, 255, 255>>

\* 2^64-1, 2^64-2, 2^63+1, 2^63, 2^63-1 (the largest nine-byte varint), 2^63-2
BigSerialTypes ==
    { Ones64,
      [Ones64 EXCEPT ![WordBytes] = 254],
      [Zero64 EXCEPT ![1] = 128, ![WordBytes] = 1],
      [Zero64 EXCEPT ![1] = 128],
      [Ones64 EXCEPT ![1] = 127],
      [Ones64 EXCEPT ![1] = 127, ![WordBytes] = 254] }

SerialTypes == {FromNat(n) : n \in 0..MaxSerialType} \cup BigSerialTypes

NoCodec ==
    [length  |-> [len |-> Zero64, err |-> "none"],
     decoded |-> [value |-> NilValue, err |-> "none"]]

InitCodec ==
    /\ serialType \in SerialTypes
    /\ raw \in SeqsUpTo(PayloadBytes, MaxRawLen)
    /\ cres = NoCodec
    /\ stream = Unused /\ vres = Unused
    /\ from = Unused /\ qres = Unused
    /\ file = Unused /\ page = Unused
    /\ op = Unused /\ res = Unused

DoColumnRawValueLength ==
    /\ cres.length.err = "none"
    /\ cres' = [cres EXCEPT !.length = columnRawValueLength(serialType)]
    /\ UNCHANGED <<stream, vres, serialType, raw, from, qres, file, page, op, res>>

DoDecodeColumnValue ==
    /\ cres.length.err # "none"
    /\ cres.decoded.err = "none"
    /\ cres' = [cres EXCEPT !.decoded = decodeColumnValue(serialType, raw)]
    /\ UNCHANGED <<stream, vres, serialType, raw, from, qres, file, page, op, res>>

NextCodec == DoColumnRawValueLength \/ DoDecodeColumnValue

SpecCodec == InitCodec /\ [][NextCodec]_vars

(***************************************************************************)
(* Claims about the column codec (checked under SpecCodec)                 *)
(***************************************************************************)

\* x + y on 64-bit words (wrapping)
RECURSIVE AddLoop(_, _, _, _, _)
AddLoop(x, y, i, carry, acc) ==
    IF i = 0 THEN acc
    ELSE LET t == x[i] + y[i] + carry
         IN  AddLoop(x, y, i - 1, t \div 256, <<t % 256>> \o acc)

Add64(x, y) == AddLoop(x, y, WordBytes, 0, <<>>)

\* the payload length the format gives a small serial type, -1 for reserved
FormatLength(n) ==
    IF n \in {0, 8, 9} THEN 0
    ELSE IF n \in 1..4 THEN n
    ELSE IF n = 5 THEN 6
    ELSE IF n \in {6, 7} THEN 8
    ELSE IF n \in {10, 11} THEN -1
    ELSE IF n % 2 = 0 THEN (n - 12) \div 2
    ELSE (n - 13) \div 2

\* C8: columnRawValueLength gives 0 for types 0, 8, 9; the width for 1..7;
\* an error for 10 and 11; (type-12)/2 for even and (type-13)/2 for odd
\* types from 12 on; and never a negative length.
C8_PayloadLength ==
    cres.length.err # "none" =>
        LET r == cres.length
        IN  /\ ~IsNegative(r.len)
            /\ (IsSmall(serialType) /\ ToNat(serialType) \in {10, 11}) => r.err # "nil"
            /\ (IsSmall(serialType) /\ ToNat(serialType) \notin {10, 11}) =>
                   /\ r.err = "nil"
                   /\ IsSmall(r.len)
                   /\ ToNat(r.len) = FormatLength(ToNat(serialType))
            /\ ~IsSmall(serialType) =>
                   /\ r.err = "nil"
                   /\ Add64(Add64(r.len, r.len),
                            FromNat(IF serialType[WordBytes] % 2 = 0 THEN 12 ELSE 13)) = serialType

\* the length of the largest serial type, 2^64-1, has been computed
C8_Witness ==
    /\ cres.length.err = "nil"
    /\ serialType = Ones64
    /\ ~IsSmall(cres.length.len)

\* the payload read as a big-endian two's-complement number of Len(bytes)
\* bytes, sign-extended to 64 bits
SignExtended(bytes) ==
    LET fill == IF bytes[1] >= 128 THEN 255 ELSE 0
        f(i) == IF i <= WordBytes - Len(bytes) THEN fill
                ELSE bytes[i - (WordBytes - Len(bytes))]
    IN  <<f(1), f(2), f(3), f(4), f(5), f(6), f(7), f(8)>>

\* C3: for serial types 1..6 the decoded value is the payload read as a
\* big-endian two's-complement integer, sign-extended to 64 bits.
C3_SignExtension ==
    (/\ cres.decoded.err = "nil"
     /\ IsSmall(serialType)
     /\ ToNat(serialType) \in 1..6) =>
        /\ cres.decoded.value.t = "int64"
        /\ cres.decoded.value.v = SignExtended(raw)

(***************************************************************************)
(* SpecQuery: TableNameFromQuery applied to FROM clauses of bounded length *)
(***************************************************************************)
MaxFromItems == 3

\* the table expressions of the parser: a plain table reference with or
\* without an alias, an aliased subquery, a join, a parenthesised list
TableExprs ==
    { [node |-> "AliasedTableExpr", expr |-> "TableName", name |-> "apples",  as |-> ""],
      [node |-> "AliasedTableExpr", expr |-> "TableName", name |-> "oranges", as |-> ""],
      [node |-> "AliasedTableExpr", expr |-> "TableName", name |-> "apples",  as |-> "a"],
      [node |-> "AliasedTableExpr", expr |-> "Subquery",  name |-> "",        as |-> "s"],
      [node |-> "JoinTableExpr",    expr |-> "",          name |-> "",        as |-> ""],
      [node |-> "ParenTableExpr",   expr |-> "",          name |-> "",        as |-> ""] }

NoQuery == [name |-> "", err |-> "none"]

InitQuery ==
    /\ from \in SeqsUpTo(TableExprs, MaxFromItems)
    /\ qres = NoQuery
    /\ stream = Unused /\ vres = Unused
    /\ serialType = Unused /\ raw = Unused /\ cres = Unused
    /\ file = Unused /\ page = Unused
    /\ op = Unused /\ res = Unused

DoTableNameFromQuery ==
    /\ qres.err = "none"
    /\ qres' = TableNameFromQuery(from)
    /\ UNCHANGED <<stream, vres, serialType, raw, cres, from, file, page, op, res>>

NextQuery == DoTableNameFromQuery

SpecQuery == InitQuery /\ [][NextQuery]_vars

(***************************************************************************)
(* Claims about TableNameFromQuery (checked under SpecQuery)               *)
(***************************************************************************)
IsPlainTable(item) == item.node = "AliasedTableExpr" /\ item.expr = "TableName"

\* the FROM clause is exactly one plain table reference without an alias
SingleUnaliasedTable(items) ==
    Len(items) = 1 /\ IsPlainTable(items[1]) /\ items[1].as = ""

\* C2 as stated: TableNameFromQuery succeeds only on a FROM clause that is
\* exactly one unaliased plain table reference, and then returns its name;
\* every other FROM clause (none, a join, a subquery, an alias, more than
\* one item) is an error.
C2_OnlySingleUnaliasedTable ==
    qres.err # "none" =>
        IF SingleUnaliasedTable(from)
        THEN qres.err = "nil" /\ qres.name = from[1].name
        ELSE qres.err # "nil"

\* C2 as amended: TableNameFromQuery returns the name of the first FROM item
\* that is a plain table reference, aliased or not, passing over joins,
\* subqueries and parenthesised lists; it returns an error exactly when no
\* FROM item is a plain table reference.
C2_FirstPlainTable ==
    qres.err # "none" =>
        LET plain == {k \in 1..Len(from) : IsPlainTable(from[k])}
        IN  IF plain = {}
            THEN qres.err # "nil"
            ELSE /\ qres.err = "nil"
                 /\ \E k \in plain : /\ \A j \in plain : k <= j
                                     /\ qres.name = from[k].name

\* a subquery, then two different plain tables: the first plain one is named
C2_Witness ==
    /\ qres.err = "nil"
    /\ Len(from) = 3
    /\ from[1].expr = "Subquery"
    /\ IsPlainTable(from[2]) /\ IsPlainTable(from[3])
    /\ from[2].name # from[3].name
    /\ qres.name = from[2].name

(***************************************************************************)
(* Database files for Spec: a 100-byte database header, a schema page of   *)
(* up to MaxSchemaRows rows and two further pages, laid out as the file    *)
(* format lays them out                                                    *)
(***************************************************************************)
ModelPageSize == 160

MaxSchemaRows == 2

MaxPageNum == 4

\* the bytes the file holds of a page it does not hold in full
TruncatedPageLen == 12

\* a varint of one or two bytes for a number below 2^14
EncodeVarint(n) == IF n < 128 THEN <<n>> ELSE <<128 + (n \div 128), n % 128>>

RECURSIVE Flatten(_)
Flatten(seqs) == IF Len(seqs) = 0 THEN <<>> ELSE Head(seqs) \o Flatten(Tail(seqs))

Reverse(q) == [i \in 1..Len(q) |-> q[Len(q) + 1 - i]]

\* a record cell: varint(record size), varint(row id), varint(header size),
\* the serial types, the payloads
MakeCell(rowid, cols) ==
    LET serials  == Flatten([i \in 1..Len(cols) |-> EncodeVarint(cols[i].st)])
        payloads == Flatten([i \in 1..Len(cols) |-> cols[i].payload])
        hdrSize  == Len(serials) + 1
    IN  EncodeVarint(hdrSize + Len(payloads)) \o EncodeVarint(rowid)
            \o EncodeVarint(hdrSize) \o serials \o payloads

TextCol(bytes) == [st |-> 13 + 2 * Len(bytes), payload |-> bytes]

BlobCol(bytes) == [st |-> 12 + 2 * Len(bytes), payload |-> bytes]

IntCol(n) == [st |-> 1, payload |-> <<n>>]

NullCol == [st |-> 0, payload |-> <<>>]

NameA == <<97>>

NameB == <<98>>

NameC == <<99>>

KindTable == <<116>>

SchemaRow(rowid, name, root) ==
    MakeCell(rowid, <<TextCol(KindTable), TextCol(name), TextCol(name), root, TextCol(<<>>)>>)

\* schema cells: whole rows, a row without rootpage, a row without tbl_name,
\* a row whose tbl_name is an integer, a cell with the reserved serial type 10
SchemaCells ==
    { SchemaRow(1, NameA, IntCol(2)),
      SchemaRow(2, NameA, IntCol(3)),
      SchemaRow(3, NameB, IntCol(3)),
      MakeCell(4, <<TextCol(KindTable), TextCol(NameA), TextCol(NameA)>>),
      MakeCell(5, <<TextCol(KindTable), TextCol(NameA)>>),
      MakeCell(7, <<TextCol(KindTable), TextCol(NameA), IntCol(7), IntCol(2), TextCol(<<>>)>>),
      <<4, 8, 2, 10, 0, 0>> }

TableRow(rowid, name) == MakeCell(rowid, <<NullCol, TextCol(name)>>)

\* cells no writer of the format produces.  A record header of 3 bytes
\* whose serial types are a NULL and the first byte of a two-byte varint:
PartialVarintCell == <<3, 5, 3, 0, 129>>

\* a text column of 100 bytes (serial type 213) followed by two bytes
LongTextCell == <<5, 6, 3, 129, 85, 120, 121>>

\* a text column whose serial type is nine bytes of 255
HugeTextCell == <<10, 7, 10, 255, 255, 255, 255, 255, 255, 255, 255, 255>>

\* a record header of 5 bytes of which the page holds 2
ShortHeaderCell == <<5, 8, 5, 0>>

\* a record header size of 0, less than the byte its own varint takes
ZeroHeaderCell == <<1, 9, 0>>

\* a header size of 3 written as a varint of two bytes, then one serial type
WideHeaderSizeCell == <<4, 10, 128, 3, 9>>

\* a header size of 1 written as a varint of two bytes
NarrowHeaderCell == <<3, 11, 128, 1, 9>>

\* a well-formed record of one column: its header is 2 bytes long
OneColumnRow == MakeCell(12, <<IntCol(7)>>)

\* a well-formed record of a blob of two bytes and an empty blob
BlobRow == MakeCell(13, <<BlobCol(<<171, 205>>), BlobCol(<<>>)>>)

\* the bytes of a b-tree page of size bytes whose header starts after the
\* prefix: the type byte, the cell count, the cell pointers in the order of
\* cells, and the cells at the end of the page, stacked downwards from the
\* end ("down", as SQLite inserts them) or upwards ("up")
BTreePage(size, prefix, typeByte, cells, layout) ==
    LET k       == Len(cells)
        stored  == IF layout = "down" THEN Reverse(cells) ELSE cells
        content == Flatten(stored)
        start   == size - Len(content)
        before(i) == Len(Flatten(SubSeq(stored, 1, i - 1)))
        addr(i) == IF layout = "down" THEN start + before(k + 1 - i) ELSE start + before(i)
        hdr     == <<typeByte, 0, 0, k \div 256, k % 256, start \div 256, start % 256, 0>>
                       \o (IF typeByte \in {InteriorIndex, InteriorTable}
                           THEN <<0, 0, 0, 0>> ELSE <<>>)
        ptrs    == Flatten([i \in 1..k |-> <<addr(i) \div 256, addr(i) % 256>>])
        used    == Len(prefix) + Len(hdr) + Len(ptrs)
    IN  prefix \o hdr \o ptrs \o [i \in 1..(start - used) |-> 0] \o content

\* the bytes of a leaf page of size bytes with the given cell pointers and
\* zero bytes after them
PointerPage(size, typeByte, pointers) ==
    LET k    == Len(pointers)
        hdr  == <<typeByte, 0, 0, k \div 256, k % 256, 0, 0, 0>>
        ptrs == Flatten([i \in 1..k |-> <<pointers[i] \div 256, pointers[i] % 256>>])
    IN  hdr \o ptrs \o [i \in 1..(size - Len(hdr) - Len(ptrs)) |-> 0]

\* the 100-byte database header: the page size at offset 16, big-endian
DatabaseHeaderBytes(pageSize) ==
    [i \in 1..databaseHeaderBytes |->
        IF i = 17 THEN pageSize \div 256 ELSE IF i = 18 THEN pageSize % 256 ELSE 0]

\* what follows the schema page of a database of two tables: a leaf table
\* page of 4 rows and one of three rows and seven cells that are not well
\* formed
TablePages ==
    [layout |-> "down",
     bytes  |-> BTreePage(ModelPageSize, <<>>, LeafTable,
                          <<TableRow(1, NameA), TableRow(2, NameB),
                            TableRow(3, NameC), TableRow(4, NameA)>>, "down")
                \o BTreePage(ModelPageSize, <<>>, LeafTable,
                             <<TableRow(9, NameB), PartialVarintCell, LongTextCell,
                               HugeTextCell, ZeroHeaderCell, WideHeaderSizeCell,
                               NarrowHeaderCell, OneColumnRow, BlobRow,
                               ShortHeaderCell>>, "up")]

\* other pages after the schema page: an interior table page and the first
\* bytes only of a third page; a page of unknown type, a leaf index page
\* whose cell pointers are its last byte and beyond, and an interior index
\* page
OtherPages ==
    { [layout |-> "up",
       bytes  |-> BTreePage(ModelPageSize, <<>>, InteriorTable,
                            <<<<0, 0, 0, 3, 1>>, <<0, 0, 0, 3, 2>>>>, "up")
                  \o SubSeq(BTreePage(ModelPageSize, <<>>, LeafTable,
                                      <<TableRow(1, NameC)>>, "up"), 1, TruncatedPageLen)],
      [layout |-> "down",
       bytes  |-> BTreePage(ModelPageSize, <<>>, 0, <<>>, "down")
                  \o PointerPage(ModelPageSize, LeafIndex,
                                 <<ModelPageSize - 1, ModelPageSize, 65535>>)
                  \o BTreePage(ModelPageSize, <<>>, InteriorIndex,
                               <<<<0, 0, 0, 2, 3, 2, 1, 7>>>>, "down")] }

\* the file of a schema page with the given cells and the pages after it
DatabaseFile(rows, tail) ==
    [exists |-> TRUE,
     bytes  |-> BTreePage(ModelPageSize, DatabaseHeaderBytes(ModelPageSize), LeafTable,
                          rows, tail.layout) \o tail.bytes]

\* every schema page of up to MaxSchemaRows cells before the table pages,
\* and the schema of tables a and b before the other pages
DatabaseFiles ==
    { DatabaseFile(rows, TablePages) : rows \in SeqsUpTo(SchemaCells, MaxSchemaRows) }
        \cup { DatabaseFile(<<SchemaRow(1, NameA, IntCol(2)), SchemaRow(3, NameB, IntCol(3))>>,
                            tail) : tail \in OtherPages }

\* files that cannot be read as a database: no file, fewer than 100 bytes,
\* a page size that does not exceed the database header
BrokenFiles ==
    { [exists |-> FALSE, bytes |-> <<>>],
      [exists |-> TRUE, bytes |-> <<83, 81, 76>>],
      [exists |-> TRUE, bytes |-> DatabaseHeaderBytes(databaseHeaderBytes) \o <<LeafTable>>] }

\* page images for databases whose page size is small: no byte at all, a
\* type byte alone, a page shorter than its header, a leaf page of one cell,
\* a leaf page that counts more cell pointers than it holds, a leaf page
\* whose two cell pointers are the same, an interior
\* page shorter than its header, and a whole leaf page of the size of the
\* database header
PageImages ==
    { <<>>,
      <<LeafTable>>,
      <<LeafTable, 0, 0, 0>>,
      <<LeafTable, 0, 0, 0, 1, 0, 8, 0, 0, 8>>,
      <<LeafTable, 0, 0, 0, 2, 0, 8, 0, 0, 8>>,
      <<LeafTable, 0, 0, 0, 2, 0, 8, 0, 0, 8, 0, 8>>,
      <<InteriorTable, 0, 0, 0, 1, 0, 8, 0, 0, 8>>,
      BTreePage(databaseHeaderBytes, <<>>, LeafTable, <<TableRow(1, NameA)>>, "down") }

\* a file of twice the length of the database header that repeats the page
\* image from its first byte on and whose page size, at offset 16, is the
\* length of the image
SmallPageFile(image) ==
    [exists |-> TRUE,
     bytes  |-> [i \in 1..(2 * databaseHeaderBytes) |->
                    IF i = 17 THEN Len(image) \div 256
                    ELSE IF i = 18 THEN Len(image) % 256
                    ELSE IF Len(image) = 0 THEN 0
                    ELSE image[((i - 1) % Len(image)) + 1]]]

SmallPageFiles == { SmallPageFile(image) : image \in PageImages }

TableNames == {NameA, NameB, NameC}

(***************************************************************************)
(* Spec: the operations of the decoder on a database file                  *)
(***************************************************************************)
NoOp == [name |-> "none", pageNum |-> 0, arg |-> 0]

NoResult == [kind |-> "none"]

Init ==
    /\ file \in DatabaseFiles \cup BrokenFiles \cup SmallPageFiles
    /\ page = NoPage
    /\ op = NoOp
    /\ res = NoResult
    /\ stream = Unused /\ vres = Unused
    /\ serialType = Unused /\ raw = Unused /\ cres = Unused
    /\ from = Unused /\ qres = Unused

others == <<stream, vres, serialType, raw, cres, from, qres>>

Loaded == op.name = "LoadPage" /\ res.err = NoError

DoLoadPage ==
    /\ op.name = "none"
    /\ \E n \in 0..MaxPageNum :
        LET r == LoadPage(file, n)
        IN  /\ op' = [name |-> "LoadPage", pageNum |-> n, arg |-> n]
            /\ res' = r
            /\ page' = r.page
    /\ UNCHANGED <<file, others>>

\* NewPage called on the open file with the header NewDatabaseHeader gave
DoNewPage ==
    /\ op.name = "none"
    /\ file.exists
    /\ NewDatabaseHeader(file).err = NoError
    /\ \E n \in 0..MaxPageNum :
        LET r == NewPage(file, NewDatabaseHeader(file).header, n)
        IN  /\ op' = [name |-> "NewPage", pageNum |-> n, arg |-> n]
            /\ res' = r
            /\ page' = r.page
    /\ UNCHANGED <<file, others>>

DoReadRow ==
    /\ Loaded
    /\ \E i \in -1..page.CellCount :
        /\ op' = [op EXCEPT !.name = "ReadRow", !.arg = i]
        /\ res' = ReadRow(page, i)
    /\ UNCHANGED <<file, page, others>>

DoReadAllRows ==
    /\ Loaded
    /\ op' = [op EXCEPT !.name = "ReadAllRows"]
    /\ res' = ReadAllRows(page)
    /\ UNCHANGED <<file, page, others>>

DoExtractTableNames ==
    /\ Loaded
    /\ op' = [op EXCEPT !.name = "ExtractTableNames"]
    /\ res' = ExtractTableNames(page)
    /\ UNCHANGED <<file, page, others>>

DoExtractTableMetadata ==
    /\ Loaded
    /\ op' = [op EXCEPT !.name = "ExtractTableMetadata"]
    /\ res' = ExtractTableMetadata("string", page, "tbl_name")
    /\ UNCHANGED <<file, page, others>>

DoRootPageLookup ==
    /\ Loaded
    /\ \E tableName \in TableNames :
        /\ op' = [op EXCEPT !.name = "RootPageLookup", !.arg = tableName]
        /\ res' = RootPageLookup(tableName, page)
    /\ UNCHANGED <<file, page, others>>

DoMetadataLookup ==
    /\ Loaded
    /\ \E tableName \in TableNames :
        /\ op' = [op EXCEPT !.name = "MetadataLookup", !.arg = tableName]
        /\ res' = MetadataLookup("uint32", page, tableName, "rootpage")
    /\ UNCHANGED <<file, page, others>>

DoRowCount ==
    /\ op.name = "none"
    /\ \E tableName \in TableNames :
        /\ op' = [op EXCEPT !.name = "RowCount", !.arg = tableName]
        /\ res' = RowCount(file, tableName)
    /\ UNCHANGED <<file, page, others>>

Next ==
    \/ DoLoadPage
    \/ DoNewPage
    \/ DoReadRow
    \/ DoReadAllRows
    \/ DoExtractTableNames
    \/ DoExtractTableMetadata
    \/ DoRootPageLookup
    \/ DoMetadataLookup
    \/ DoRowCount

Spec == Init /\ [][Next]_vars

(***************************************************************************)
(* Properties of the row reader and of the schema catalog                  *)
(***************************************************************************)
Cells == 0..(page.CellCount - 1)

\* ReadRow of every cell of the loaded page
RowResults == [i \in Cells |-> ReadRow(page, i)]

FailingIn(results) == {i \in DOMAIN results : results[i].kind # "ok"}

FailingCells == FailingIn(RowResults)

FirstFailing(failing) == CHOOSE i \in failing : \A j \in failing : i <= j

FirstFailingCell == FirstFailing(FailingCells)

AllOrNothing(results, failing) ==
    IF failing = {}
    THEN /\ res.kind = "ok" /\ res.err = NoError
         /\ Len(res.rows) = page.CellCount
         /\ \A i \in Cells : res.rows[i + 1] = results[i].row
         /\ res.calls = page.CellCount
    ELSE /\ res.kind = results[FirstFailing(failing)].kind
         /\ res.err = results[FirstFailing(failing)].err
         /\ res.err # NoError
         /\ res.rows = <<>>
         /\ res.calls = FirstFailing(failing) + 1

\* C7: ReadAllRows returns, on success, exactly CellCount rows, rows[i] being
\* ReadRow(page, i) in the order of the cell pointer array; when ReadRow
\* fails for a cell it returns the error of the first such cell, no rows at
\* all, and has called ReadRow for no later cell.
C7_ReadAllRowsAllOrNothing ==
    op.name = "ReadAllRows" =>
        Bind(RowResults, LAMBDA results :
            Bind(FailingIn(results), LAMBDA failing : AllOrNothing(results, failing)))

\* ReadAllRows of a page whose first cell decodes and whose second does not:
\* the decoded row is discarded
C7_Witness ==
    /\ op.name = "ReadAllRows"
    /\ page.CellCount = 2
    /\ FailingCells = {1}
    /\ res.kind = "err" /\ res.rows = <<>> /\ res.calls = 2

\* the rows of the loaded page, when all of them decode
PageRows == ReadAllRows(page)

HasTblName(row) ==
    /\ Len(row.Columns) >= 3
    /\ row.Columns[3].DecodedValue.t = "string"

TblName(row) == row.Columns[3].DecodedValue.v

TableNamesOrError(rows) ==
    IF \A k \in 1..Len(rows) : HasTblName(rows[k])
    THEN /\ res.kind = "ok" /\ res.err = NoError
         /\ Len(res.names) = Len(rows)
         /\ \A k \in 1..Len(rows) : res.names[k] = TblName(rows[k])
    ELSE /\ res.kind = "err" /\ res.err # NoError
         /\ res.names = <<>>

IsSchemaRow(row) ==
    /\ Len(row.Columns) >= 4
    /\ HasTblName(row)
    /\ row.Columns[4].DecodedValue.t = "int64"

RootPageOf(row) == row.Columns[4].DecodedValue.v

Matching(rows, name) == {k \in 1..Len(rows) : HasTblName(rows[k]) /\ TblName(rows[k]) = name}

FirstMatching(rows, name) ==
    CHOOSE k \in Matching(rows, name) : \A j \in Matching(rows, name) : k <= j

\* C4: RootPageLookup and MetadataLookup return the rootpage (column index
\* 3) of the first row, in cell-pointer order, whose tbl_name equals the
\* table name, and a table-not-found error and no value when no row's
\* tbl_name equals it.  Stated for schema pages all of whose rows are schema
\* rows.
C4_FirstMatchingRootPage ==
    (/\ op.name \in {"RootPageLookup", "MetadataLookup"}
     /\ PageRows.kind = "ok"
     /\ \A k \in 1..Len(PageRows.rows) : IsSchemaRow(PageRows.rows[k])) =>
        IF Matching(PageRows.rows, op.arg) = {}
        THEN /\ res.kind = "err"
             /\ res.err = Error("table not found in schema")
             /\ res.value = <<>>
        ELSE /\ res.kind = "ok" /\ res.err = NoError
             /\ res.value = Uint32(RootPageOf(PageRows.rows[FirstMatching(PageRows.rows, op.arg)]))

\* C5: a schema lookup returns a value or an error for every schema page
\* whose rows decode, also when the row of the table has fewer than 4
\* columns; it never crashes.
C5_LookupNeverCrashes ==
    (op.name \in {"RootPageLookup", "MetadataLookup"} /\ PageRows.kind = "ok") =>
        res.kind \in {"ok", "err"}

\* the schema page of the file and its rows, as RowCount's caller sees them
SchemaPage == LoadPage(file, 1)

SchemaRows == ReadAllRows(SchemaPage.page)

\* C1: RowCount returns the CellCount of the root page, with no error, when
\* page 1 decodes into schema rows, a row's tbl_name equals the table name,
\* and the rootpage r >= 1 of that row names a readable page.
C1_RowCountOfRootPage ==
    (/\ op.name = "RowCount"
     /\ SchemaPage.err = NoError
     /\ SchemaRows.kind = "ok"
     /\ \A k \in 1..Len(SchemaRows.rows) : IsSchemaRow(SchemaRows.rows[k])
     /\ Matching(SchemaRows.rows, op.arg) # {}) =>
        LET r == RootPageOf(SchemaRows.rows[FirstMatching(SchemaRows.rows, op.arg)])
        IN  (IsSmall(r) /\ ToNat(r) >= 1 /\ LoadPage(file, ToNat(r)).err = NoError) =>
                /\ res.kind = "ok" /\ res.err = NoError
                /\ res.count = LoadPage(file, ToNat(r)).page.CellCount

(***************************************************************************)
(* Properties of ReadRow on the cells of the loaded page                   *)
(***************************************************************************)
RowRead == op.name = "ReadRow" /\ op.arg \in Cells

\* the byte stream of the cell read, and its three leading varints
CellStream == CellData(page, op.arg).data

RecordSizeVarint == ReadVarint(CellStream)

RowIDVarint == ReadVarint(RecordSizeVarint.rest)

HeaderSizeVarint == ReadVarint(RowIDVarint.rest)

\* the bytes the record header has for serial types: the header size less
\* the length of the header-size varint
SerialTypeBudget == ToNat(HeaderSizeVarint.value) - HeaderSizeVarint.read

\* the length of the complete varint that starts bytes, 0 when bytes end
\* inside a varint
VarintEnd(bytes) ==
    LET ends == {k \in 1..Min(VarintMaxBytes, Len(bytes)) :
                    /\ \A j \in 1..(k - 1) : bytes[j] >= 128
                    /\ k = VarintMaxBytes \/ bytes[k] < 128}
    IN  IF ends = {} THEN 0 ELSE CHOOSE k \in ends : \A j \in ends : k <= j

\* the number of varints bytes is made of, -1 when bytes is not a
\* concatenation of complete varints
RECURSIVE WholeVarints(_)
WholeVarints(bytes) ==
    IF Len(bytes) = 0 THEN 0
    ELSE IF VarintEnd(bytes) = 0 THEN -1
    ELSE LET more == WholeVarints(SubSeq(bytes, VarintEnd(bytes) + 1, Len(bytes)))
         IN  IF more < 0 THEN -1 ELSE more + 1

\* C11: every row ReadRow returns has as many columns as there are
\* serial-type varints in the RecordHeaderSize - (length of the header-size
\* varint) bytes after the header-size varint; these bytes are all on the
\* page and are made of complete varints only.
C11_HeaderWhollyConsumed ==
    (RowRead /\ res.kind = "ok") =>
        /\ IsSmall(HeaderSizeVarint.value)
        /\ SerialTypeBudget >= 0
        /\ SerialTypeBudget <= Len(HeaderSizeVarint.rest)
        /\ WholeVarints(SubSeq(HeaderSizeVarint.rest, 1, SerialTypeBudget))
               = Len(res.row.Columns)

\* the bytes after the serial types of the cell read: the payloads
PayloadStream ==
    SubSeq(HeaderSizeVarint.rest, Min(SerialTypeBudget, Len(HeaderSizeVarint.rest)) + 1,
           Len(HeaderSizeVarint.rest))

\* the serial types the header of the cell read gives, in order
SerialTypesRead ==
    SerialTypeLoop(SubSeq(HeaderSizeVarint.rest, 1,
                          Min(SerialTypeBudget, Len(HeaderSizeVarint.rest))), <<>>).columns

\* the header of the cell read can be read, and every serial type in it has
\* a payload length of the model's range
PayloadsSized(types) ==
    /\ RecordSizeVarint.err = "nil" /\ RowIDVarint.err = "nil" /\ HeaderSizeVarint.err = "nil"
    /\ IsSmall(HeaderSizeVarint.value) /\ SerialTypeBudget >= 0
    /\ \A k \in 1..Len(types) :
          /\ columnRawValueLength(types[k].SerialType).err = "nil"
          /\ IsSmall(columnRawValueLength(types[k].SerialType).len)

\* the payload bytes cut into one slice per serial type, each of the length
\* columnRawValueLength gives; short when the bytes end before a slice does
RECURSIVE SlicePayloads(_, _, _)
SlicePayloads(types, payload, slices) ==
    IF Len(types) = 0 THEN [short |-> FALSE, slices |-> slices]
    ELSE Bind(ToNat(columnRawValueLength(Head(types).SerialType).len), LAMBDA n :
             IF n > Len(payload) THEN [short |-> TRUE, slices |-> slices]
             ELSE SlicePayloads(Tail(types), SubSeq(payload, n + 1, Len(payload)),
                                Append(slices, SubSeq(payload, 1, n))))

ExactPayloads(types, sliced) ==
    IF sliced.short
    THEN res.kind = "err" /\ res.err # NoError /\ res.row = NoRow
    ELSE res.kind = "ok" =>
            /\ Len(res.row.Columns) = Len(types)
            /\ \A k \in 1..Len(types) :
                  /\ res.row.Columns[k].SerialType = types[k].SerialType
                  /\ [value |-> res.row.Columns[k].DecodedValue, err |-> "nil"]
                       = decodeColumnValue(types[k].SerialType, sliced.slices[k])

HeaderPageSize == BigEndianUint16(file.bytes, 16)

\* the state holds a page that NewPage or LoadPage returned for op.pageNum
PageHeld == page # NoPage

\* C13: a page that was read sits at file offset 0 with ContentOffset 100
\* when it is page 1 and at (n-1) * pageSize with ContentOffset 0 when it is
\* page n >= 2, and its Data are the pageSize bytes of the file from there.
C13_PagePlacement ==
    PageHeld =>
        /\ op.pageNum >= 1
        /\ page.PageStart = (op.pageNum - 1) * HeaderPageSize
        /\ page.ContentOffset = IF op.pageNum = 1 THEN 100 ELSE 0
        /\ Len(page.Data) = HeaderPageSize
        /\ page.Data = SubSeq(file.bytes, page.PageStart + 1, page.PageStart + HeaderPageSize)

\* the third page of a file, read by NewPage
C13_Witness ==
    /\ op.name = "NewPage" /\ op.pageNum = 3
    /\ PageHeld /\ res.err = NoError
    /\ page.PageStart = 2 * HeaderPageSize
    /\ page.ContentOffset = 0

\* the 0-based offset in Data of the cell pointer array of the page held
PointerArrayOffset ==
    page.ContentOffset + (IF page.PageType \in {InteriorIndex, InteriorTable} THEN 12 ELSE 8)

\* C14: every page NewPage returns, whatever its number, has as many cell
\* addresses as its CellCount says, the k-th being the k-th big-endian
\* 16-bit entry of the cell pointer array.
C14_OneAddressPerCell ==
    PageHeld =>
        /\ Len(page.CellAddresses) = page.CellCount
        /\ \A k \in 1..page.CellCount :
              page.CellAddresses[k] =
                  page.Data[PointerArrayOffset + 2 * k - 1] * 256
                      + page.Data[PointerArrayOffset + 2 * k]

\* a page of at least two cells read by NewPage
C14_Witness ==
    /\ op.name = "NewPage" /\ res.err = NoError
    /\ page.CellCount >= 2
    /\ Len(page.CellAddresses) = page.CellCount

\* C15: reading page number 0 fails with an invalid-page-number error and
\* gives no page; NewPage has then read no byte of the file and LoadPage
\* has not opened the file.
C15_PageZeroRejectedFirst ==
    (op.name \in {"LoadPage", "NewPage"} /\ op.pageNum = 0) =>
        /\ res.page = NoPage /\ page = NoPage
        /\ op.name = "NewPage" =>
              /\ res.err = Error("page number must be greater than 0")
              /\ res.bytesRead = 0
        /\ op.name = "LoadPage" =>
              /\ res.err = Error("page numbers start at 1")
              /\ res.opened = 0

\* LoadPage of page 0 of a file that holds a database
C15_Witness ==
    /\ op.name = "LoadPage" /\ op.pageNum = 0
    /\ file \in DatabaseFiles
    /\ res.err = Error("page numbers start at 1")
    /\ res.opened = 0

\* the call made was a read of page op.pageNum, by NewPage or by LoadPage
PageReadCalled == op.name \in {"LoadPage", "NewPage"} /\ op.pageNum >= 1

\* where the file has the page asked for, and where its b-tree header starts
AskedStart == (op.pageNum - 1) * HeaderPageSize

AskedContentOffset == IF op.pageNum = 1 THEN 100 ELSE 0

\* the file holds the database header and all bytes of the page asked for
FileHoldsPage ==
    /\ file.exists
    /\ Len(file.bytes) >= 100
    /\ HeaderPageSize > AskedContentOffset
    /\ Len(file.bytes) >= AskedStart + HeaderPageSize

AskedTypeByte == file.bytes[AskedStart + AskedContentOffset + 1]

FileEndsInPage ==
    /\ file.exists
    /\ Len(file.bytes) >= 100
    /\ HeaderPageSize > AskedContentOffset
    /\ Len(file.bytes) < AskedStart + HeaderPageSize

\* C17: when the file holds fewer than start + pageSize bytes NewPage
\* returns the read error and no page, never a page filled in part.
C17_ShortReadIsError ==
    (PageReadCalled /\ FileEndsInPage) =>
        /\ res.page = NoPage /\ page = NoPage
        /\ res.err # NoError
        /\ op.name = "NewPage" =>
              /\ res.err = Error("read bytes")
              /\ res.bytesRead = IF Len(file.bytes) > AskedStart
                                 THEN Len(file.bytes) - AskedStart ELSE 0
        /\ op.name = "LoadPage" => res.err = Wrap("read schema page", Error("read bytes"))

\* NewPage of a page of which the file holds the first bytes only
C17_Witness ==
    /\ op.name = "NewPage" /\ PageReadCalled
    /\ FileEndsInPage
    /\ Len(file.bytes) > AskedStart
    /\ res.err = Error("read bytes") /\ res.page = NoPage
    /\ res.bytesRead = TruncatedPageLen

\* the pointer of the cell asked for, as the cell pointer array of the page
\* held has it
AskedPointer ==
    page.Data[PointerArrayOffset + 2 * op.arg + 1] * 256
        + page.Data[PointerArrayOffset + 2 * op.arg + 2]

\* C18: CellData, and with it ReadRow, returns an error and no data for a
\* cell index below 0 or not below CellCount and for a cell whose pointer is
\* not below len(Data); otherwise the cell's stream is Data from the pointer,
\* counted from the start of the page, to the end of the page.
C18_CellStream ==
    op.name = "ReadRow" =>
        IF op.arg < 0 \/ op.arg >= page.CellCount
        THEN /\ CellData(page, op.arg) =
                    [data |-> <<>>, err |-> CellError("cell index out of range", op.arg)]
             /\ res.kind = "err" /\ res.row = NoRow
             /\ res.err = CellError("cell index out of range", op.arg)
        ELSE IF AskedPointer >= Len(page.Data)
        THEN /\ CellData(page, op.arg).data = <<>>
             /\ CellData(page, op.arg).err = Error("cell offset exceeds page data")
             /\ res.kind = "err" /\ res.row = NoRow
             /\ res.err = Error("cell offset exceeds page data")
        ELSE /\ CellData(page, op.arg) =
                    [data |-> SubSeq(page.Data, AskedPointer + 1, Len(page.Data)),
                     err  |-> NoError]
             /\ res.err \notin {CellError("cell index out of range", op.arg),
                                Error("cell offset exceeds page data")}

\* ReadRow of a cell whose pointer is the length of the page
C18_Witness ==
    /\ op.name = "ReadRow" /\ op.arg \in Cells
    /\ AskedPointer = Len(page.Data)
    /\ res.kind = "err" /\ res.err = Error("cell offset exceeds page data")

C20_ReadRowNeverCrashes ==
    op.name = "ReadRow" =>
        /\ res.kind \in {"ok", "err"}
        /\ ~res.overAlloc

(***************************************************************************)
(* Errors of the record decoder                                            *)
(***************************************************************************)
\* C21: every error ReadRow returns for a cell, and every error ReadAllRows
\* returns, carries the index of the offending cell: the index asked for by
\* ReadRow, the index of the first failing cell for ReadAllRows.
C21_ErrorsNameCell ==
    /\ (op.name = "ReadRow" /\ res.kind = "err") => res.err.cell = op.arg
    /\ (op.name = "ReadAllRows" /\ res.kind = "err") => res.err.cell = res.calls - 1

(***************************************************************************)
(* The page size of the pages NewPage returns                              *)
(***************************************************************************)
\* C22: every page NewPage returns, for page 1 and for later pages alike,
\* has a page size above the 100 bytes of the database header: NewPage fails
\* when the PageSize of the database header is 100 or less.
C22_PageSizeAboveHeader ==
    (op.name \in {"NewPage", "LoadPage"} /\ res.err = NoError) =>
        /\ HeaderPageSize > databaseHeaderBytes
        /\ Len(res.page.Data) > databaseHeaderBytes

(***************************************************************************)
(* The cell count and the cell pointers of the pages NewPage returns       *)
(***************************************************************************)
PageReturned == op.name \in {"NewPage", "LoadPage"} /\ res.err = NoError

\* C23 as stated: CellCount is the big-endian 16-bit value at bytes 2-3 of
\* the b-tree page header, the page-type byte being byte 0.
C23_CellCountAtBytesTwoThree ==
    PageReturned =>
        res.page.CellCount = BigEndianUint16(res.page.Data, res.page.ContentOffset + 2)

\* C23, amended: CellCount is the big-endian 16-bit value at bytes 3-4 of
\* the b-tree page header, the page-type byte being byte 0: bytes 2-3 of the
\* header bytes that follow the type byte.
C23_CellCountAtBytesThreeFour ==
    PageReturned =>
        res.page.CellCount = BigEndianUint16(res.page.Data, res.page.ContentOffset + 3)

\* a page of two cells is returned, and bytes 2-3 of its header are not 2
C23_Witness ==
    /\ PageReturned
    /\ res.page.CellCount = 2
    /\ BigEndianUint16(res.page.Data, res.page.ContentOffset + 2) # 2

\* the cell pointer array of the page returned, entry by entry as the file
\* holds it: from byte 8 of a leaf page's header, byte 12 of an interior one's
PointersOnDisk ==
    [i \in 1..res.page.CellCount |->
        BigEndianUint16(res.page.Data,
                        res.page.ContentOffset
                            + (IF res.page.PageType \in {LeafIndex, LeafTable} THEN 8 ELSE 12)
                            + 2 * (i - 1))]

\* C24: CellAddresses of a page NewPage returns is the cell pointer array in
\* its on-disk order, neither sorted nor deduplicated: entry i is the
\* big-endian 16-bit value at Data[ContentOffset+8+2i] of a leaf page, at
\* Data[ContentOffset+12+2i] of an interior page, for every i < CellCount.
C24_OnDiskOrder == PageReturned => res.page.CellAddresses = PointersOnDisk

\* a page is returned whose cell pointers are not in ascending order: one
\* is followed by an equal or a smaller one
C24_Witness ==
    /\ PageReturned
    /\ \E k \in 1..(res.page.CellCount - 1) :
          res.page.CellAddresses[k] >= res.page.CellAddresses[k + 1]
    /\ res.page.CellAddresses = PointersOnDisk

(***************************************************************************)
(* The record header of the cell ReadRow reads                             *)
(***************************************************************************)
\* the three leading varints of the cell read are all read without error
LeadingVarintsRead ==
    /\ RowRead /\ CellData(page, op.arg).err = NoError
    /\ RecordSizeVarint.err = "nil" /\ RowIDVarint.err = "nil" /\ HeaderSizeVarint.err = "nil"

SerialTypesOf(columns) == [k \in 1..Len(columns) |-> columns[k].SerialType]

\* the serial types decoded from the first budget bytes after the
\* header-size varint h, or from the bytes the cell has when it has fewer
SerialTypesWithin(h, budget) ==
    SerialTypesOf(SerialTypeLoop(SubSeq(h.rest, 1, Min(budget, Len(h.rest))), <<>>).columns)

BudgetOfHeaderSizeOnly(h) ==
    IF ToNat(h.value) < h.read
    THEN res.kind = "err" /\ res.err = CellError("negative header size", op.arg)
    ELSE res.kind = "ok" =>
            /\ res.row.RecordHeaderSize = h.value
            /\ SerialTypesOf(res.row.Columns)
                   = SerialTypesWithin(h, ToNat(h.value) - h.read)

\* C25: the serial types ReadRow reads are those of the RecordHeaderSize -
\* (length of the header-size varint) bytes after the header-size varint,
\* the lengths of the record-size and row-id varints not being subtracted;
\* ReadRow returns an error when that difference is negative.
C25_BudgetLessHeaderSizeVarint ==
    (LeadingVarintsRead /\ IsSmall(HeaderSizeVarint.value)) =>
        Bind(HeaderSizeVarint, LAMBDA h : BudgetOfHeaderSizeOnly(h))

\* ReadRow of a cell whose record header size is 0
C25_Witness ==
    /\ LeadingVarintsRead
    /\ HeaderSizeVarint.value = Zero64
    /\ res.kind = "err" /\ res.err = CellError("negative header size", op.arg)

\* the bytes the three leading varints of the cell read take
LeadingVarintBytes == RecordSizeVarint.read + RowIDVarint.read + HeaderSizeVarint.read

\* C26 as stated: the RecordHeaderSize of every row ReadRow returns is at
\* least the number of bytes the three leading varints (record size, row
\* id, header size) take.
C26_HeaderSizeCoversLeadingVarints ==
    (RowRead /\ res.kind = "ok" /\ IsSmall(res.row.RecordHeaderSize)) =>
        ToNat(res.row.RecordHeaderSize) - LeadingVarintBytes >= 0

\* C26, amended: the RecordHeaderSize of every row ReadRow returns is at
\* least the number of bytes its own varint takes, and is below 2^63.
C26_HeaderSizeCoversItsVarint ==
    (RowRead /\ res.kind = "ok") =>
        /\ ~IsNegative(res.row.RecordHeaderSize)
        /\ IsSmall(res.row.RecordHeaderSize) =>
              ToNat(res.row.RecordHeaderSize) - HeaderSizeVarint.read >= 0

\* ReadRow returns the row of a well-formed record of one column: a header
\* of 2 bytes after a record size and a row id of one byte each
C26_Witness ==
    /\ RowRead /\ res.kind = "ok"
    /\ Len(res.row.Columns) = 1
    /\ res.row.Columns[1].DecodedValue.t = "int64"
    /\ ToNat(res.row.RecordHeaderSize) = 2
    /\ LeadingVarintBytes = 3

(***************************************************************************)
(* The place of the column payloads in the cell ReadRow reads              *)
(***************************************************************************)
\* for each serial type in order the cell offset at which its payload
\* starts and the length of the payload, the first payload starting at
\* offset start
RECURSIVE PayloadSpans(_, _, _)
PayloadSpans(types, start, spans) ==
    IF Len(types) = 0 THEN spans
    ELSE Bind(ToNat(columnRawValueLength(Head(types).SerialType).len), LAMBDA n :
             PayloadSpans(Tail(types), start + n,
                          Append(spans, [start |-> start, len |-> n])))

\* the cell offset of the first byte after the record header
HeaderEnd == RecordSizeVarint.read + RowIDVarint.read + ToNat(HeaderSizeVarint.value)

SpansOnCell(cell, spans) ==
    \A k \in 1..Len(spans) : spans[k].len > 0 => spans[k].start + spans[k].len <= Len(cell)

ContiguousPayloads(types, cell, spans) ==
    IF SpansOnCell(cell, spans)
    THEN /\ res.kind = "ok"
         /\ Len(res.row.Columns) = Len(types)
         /\ \A k \in 1..Len(types) :
               [value |-> res.row.Columns[k].DecodedValue, err |-> "nil"]
                   = decodeColumnValue(types[k].SerialType,
                                       SubSeq(cell, spans[k].start + 1,
                                              spans[k].start + spans[k].len))
    ELSE res.kind = "err"

\* C27: the payload of column i is read from the cell at offset
\* len(record-size varint) + len(row-id varint) + RecordHeaderSize + the
\* payload lengths of columns 0..i-1: the payloads follow the record header
\* and each other without a gap, in serial-type order, and no payload byte
\* is skipped or read twice by the reading of the serial types.
C27_ContiguousPayloads ==
    RowRead =>
        Bind(SerialTypesRead, LAMBDA types :
            PayloadsSized(types) =>
                ContiguousPayloads(types, CellStream, PayloadSpans(types, HeaderEnd, <<>>)))

\* ReadRow returns a row whose second and third columns have payloads that
\* follow the non-empty payload of the column before
C27_Witness ==
    /\ RowRead /\ res.kind = "ok"
    /\ PayloadsSized(SerialTypesRead)
    /\ Len(res.row.Columns) >= 3
    /\ LET spans == PayloadSpans(SerialTypesRead, HeaderEnd, <<>>)
       IN  /\ spans[1].len > 0 /\ spans[2].len > 0 /\ spans[3].len > 0
           /\ spans[3].start = HeaderEnd + spans[1].len + spans[2].len
           /\ SpansOnCell(CellStream, spans)

(***************************************************************************)
(* NewPage on pages of every size                                          *)
(***************************************************************************)
\* the bytes NewPage has read of the page it returns are bytes of the page:
\* the type byte, the header after it and the cell pointer array
ReadsWithinPage(pg) ==
    LET headerEnd == pg.ContentOffset + (IF pg.PageType \in {LeafIndex, LeafTable} THEN 8 ELSE 12)
    IN  /\ pg.ContentOffset < Len(pg.Data)
        /\ headerEnd <= Len(pg.Data)
        /\ headerEnd + 2 * pg.CellCount <= Len(pg.Data)
        /\ Len(pg.CellAddresses) = pg.CellCount

\* C28: NewPage reads no byte outside page.Data: for every page size, every
\* page number from 1 on and every page content it returns a page, whose
\* type byte, header and cell pointer array are within Data, or an error
\* and no page; it never panics on an index out of range.
C28_ReadsWithinData ==
    (op.name = "NewPage" /\ op.pageNum >= 1) =>
        /\ res.err # Error("panic: index out of range")
        /\ IF res.err = NoError
           THEN res.page # NoPage /\ ReadsWithinPage(res.page)
           ELSE res.page = NoPage

\* NewPage of a page of 10 bytes that counts two cell pointers, for which it
\* has 2 bytes
C28_Witness ==
    /\ op.name = "NewPage" /\ op.pageNum >= 1
    /\ FileHoldsPage
    /\ HeaderPageSize < 12
    /\ AskedTypeByte = LeafTable
    /\ BigEndianUint16(file.bytes, AskedStart + 3) = 2
    /\ res.err = Error("cell pointer array truncated") /\ res.page = NoPage

(***************************************************************************)
(* The page after decoding                                                 *)
(***************************************************************************)
Decoded ==
    op.name \in {"ReadRow", "ReadAllRows", "ExtractTableNames", "ExtractTableMetadata",
                 "RootPageLookup", "MetadataLookup"}

\* every blob among the columns is held in an array of its own
BlobsCopied(columns) ==
    \A k \in 1..Len(columns) :
        columns[k].DecodedValue.t = "bytes" => columns[k].DecodedValue.mem = "own"

====
